---- MODULE Spec2Model ----
\* A model of the ClearURLs core (src/clearurls.js): the Provider rule
\* storage, the engine removeFieldsFormURL, the dispatcher clearUrl and the
\* hash / rule-set update pipeline.
\*
\* Text is modelled at character level: a URL is a sequence of one-character
\* strings.  A regular expression source is a record [kind, s]:
\*   "lit"    the text s itself, free of metacharacters
\*   "field"  s as wrapped by addRule: a separator run, s, "=", then any
\*            run of characters other than "&"
\*   "ref"    s as wrapped by addReferralMarketing: as "field", the value
\*            run also ending at "/" and "?"
\*   "any"    dot-star, the rule a complete provider starts with
\*   "redir"  the literal prefix s followed by one capture group that takes
\*            the rest of the text
\*   "bad"    a text that is no regular expression (an unclosed group)
\* A field or referral name holding "(" makes the wrapped pattern no regular
\* expression either.
\* Two records are equal exactly when their pattern texts are equal.  The
\* alphabet has no ";", so the HTML-escaped ampersand alternative of the
\* wrappers never matches.
EXTENDS Integers, Sequences, FiniteSets, TLC

\* ------------------------------------------------------------------ text

\* Body applied to the value of v.
Bind(v, Body(_)) == CHOOSE r \in {Body(x) : x \in {v}} : TRUE

Lit(s) == [kind |-> "lit", s |-> s]

\* new RegExp(rule, flags) returns: the pattern text is a regular expression.
Compiles(rule) ==
    /\ rule.kind # "bad"
    /\ \A i \in 1..Len(rule.s) : rule.s[i] # "("

\* Does p occur in s at position i?
OccursAt(s, p, i) ==
    /\ i >= 1
    /\ i + Len(p) - 1 <= Len(s)
    /\ \A k \in 1..Len(p) : s[i + k - 1] = p[k]

\* First position >= i at which p occurs in s, 0 when there is none.
RECURSIVE FindFrom(_, _, _)
FindFrom(s, p, i) ==
    IF i + Len(p) - 1 > Len(s) THEN 0
    ELSE IF OccursAt(s, p, i) THEN i
    ELSE FindFrom(s, p, i + 1)

\* First position >= i holding a character of set cs, Len(s)+1 when none.
RECURSIVE FirstIn(_, _, _)
FirstIn(s, cs, i) ==
    IF i > Len(s) THEN Len(s) + 1
    ELSE IF s[i] \in cs THEN i
    ELSE FirstIn(s, cs, i + 1)

\* First position >= i holding a character outside cs, Len(s)+1 when none.
RECURSIVE FirstNotIn(_, _, _)
FirstNotIn(s, cs, i) ==
    IF i > Len(s) THEN Len(s) + 1
    ELSE IF s[i] \notin cs THEN i
    ELSE FirstNotIn(s, cs, i + 1)

Drop(s, n) == SubSeq(s, n + 1, Len(s))
Take(s, n) == SubSeq(s, 1, n)

\* String.prototype.replace with a non-global pattern of literal text p:
\* the first occurrence is replaced by r.
ReplaceFirst(s, p, r) ==
    LET i == FindFrom(s, p, 1)
    IN  IF i = 0 THEN s ELSE Take(s, i - 1) \o r \o Drop(s, i + Len(p) - 1)

\* replace of x and all that follows by "": the text from the first x on is removed.
CutAt(s, x) == Take(s, FirstIn(s, {x}, 1) - 1)

\* replace of the shortest prefix ending in x by "": the text up to and including the first x is removed.
AfterFirst(s, x) ==
    LET i == FirstIn(s, {x}, 1) IN IF i > Len(s) THEN s ELSE Drop(s, i)

\* replace(new RegExp(p, "gi"), "") for literal text p: the matches are found
\* left to right, each search resuming where the last match ended.
RECURSIVE RemoveAllLit(_, _, _)
RemoveAllLit(s, p, i) ==
    IF Len(p) = 0 THEN s
    ELSE LET j == FindFrom(s, p, i)
         IN  IF j = 0 THEN Drop(s, i - 1)
             ELSE SubSeq(s, i, j - 1) \o RemoveAllLit(s, p, j + Len(p))

Separators == {"/", "?", "#", "&"}

\* replace(new RegExp(wrapped name, "gi"), "") for a wrapped field name:
\* a run of separators, the name, "=" and the value up to the next stop
\* character.  The name starts with a non-separator, so a match consumes a
\* maximal separator run.
RECURSIVE RemoveAllField(_, _, _, _)
RemoveAllField(s, name, stop, i) ==
    IF i > Len(s) THEN <<>>
    ELSE IF s[i] \in Separators
    THEN LET j == FirstNotIn(s, Separators, i)
         IN  IF OccursAt(s, name \o <<"=">>, j)
             THEN RemoveAllField(s, name, stop, FirstIn(s, stop, j + Len(name) + 1))
             ELSE SubSeq(s, i, j - 1) \o RemoveAllField(s, name, stop, j)
    ELSE <<s[i]>> \o RemoveAllField(s, name, stop, i + 1)

\* s.replace(new RegExp(rule, "gi"), "")
RegexRemoveAll(s, rule) ==
    CASE rule.kind = "lit"   -> RemoveAllLit(s, rule.s, 1)
      [] rule.kind = "field" -> RemoveAllField(s, rule.s, {"&"}, 1)
      [] rule.kind = "ref"   -> RemoveAllField(s, rule.s, {"/", "?", "&"}, 1)
      [] rule.kind = "any"   -> <<>>
      [] OTHER               -> s

\* new RegExp(rule, "i").test(s)
RegexTest(s, rule) ==
    CASE rule.kind = "lit"   -> FindFrom(s, rule.s, 1) # 0
      [] rule.kind = "redir" -> FindFrom(s, rule.s, 1) # 0
      [] rule.kind = "any"   -> TRUE
      [] OTHER               -> RegexRemoveAll(s, rule) # s

\* new RegExp(rule, "i").exec(s)[1] for a matching rule: the first capture
\* group, the text after the first occurrence of the prefix.
RegexGroup1(s, rule) ==
    Drop(s, FindFrom(s, rule.s, 1) + Len(rule.s) - 1)

\* ------------------------------------------------- helpers outside src/

\* existsFields(url): the URL holds a "?" followed by at least one character.
existsFields(url) == FirstIn(url, {"?"}, 1) < Len(url)

\* existsFragments(url): the URL holds a "#" followed by at least one character.
existsFragments(url) == FirstIn(url, {"#"}, 1) < Len(url)

\* String.prototype.split("&")
RECURSIVE Split(_)
Split(s) ==
    LET i == FirstIn(s, {"&"}, 1)
    IN  IF i > Len(s) THEN <<s>> ELSE <<Take(s, i - 1)>> \o Split(Drop(s, i))

\* Array.prototype.rmEmpty: the empty tokens are dropped.
rmEmpty(toks) == SelectSeq(toks, LAMBDA x : x # <<>>)

\* Array.prototype.join("&")
RECURSIVE Join(_)
Join(toks) ==
    IF Len(toks) = 0 THEN <<>>
    ELSE IF Len(toks) = 1 THEN toks[1]
    ELSE toks[1] \o <<"&">> \o Join(Tail(toks))

\* extractFileds(url): the tokens of the query string, the text after the
\* first "?" up to the fragment.
extractFileds(url) ==
    IF existsFields(url)
    THEN LET q == AfterFirst(url, "?")
         IN  Split(IF existsFragments(url) THEN CutAt(q, "#") ELSE q)
    ELSE <<>>

\* extractFragments(url): the tokens of the fragment, the text after the
\* first "#".
extractFragments(url) ==
    IF existsFragments(url) THEN Split(AfterFirst(url, "#")) ELSE <<>>

\* The host part of a model URL is its first character; "l" is a loopback
\* host.
checkLocalURL(url) == Len(url) > 0 /\ url[1] = "l"

\* The percent escapes that can be written over the alphabet.
Escapes == {"22", "26", "62", "66"}
Unescape(hh) ==
    CASE hh = "22" -> "\""
      [] hh = "26" -> "&"
      [] hh = "62" -> "b"
      [] hh = "66" -> "f"

\* Can decodeURIComponent decode s from position i on?
RECURSIVE DecodeOk(_, _)
DecodeOk(s, i) ==
    IF i > Len(s) THEN TRUE
    ELSE IF s[i] # "%" THEN DecodeOk(s, i + 1)
    ELSE /\ i + 2 <= Len(s)
         /\ (s[i + 1] \o s[i + 2]) \in Escapes
         /\ DecodeOk(s, i + 3)

\* decodeURL(url) for a decodable text: every percent escape is replaced by
\* the character it encodes.
RECURSIVE Decode(_, _)
Decode(s, i) ==
    IF i > Len(s) THEN <<>>
    ELSE IF s[i] = "%" /\ i + 2 <= Len(s) /\ (s[i + 1] \o s[i + 2]) \in Escapes
    THEN <<Unescape(s[i + 1] \o s[i + 2])>> \o Decode(s, i + 3)
    ELSE <<s[i]>> \o Decode(s, i + 1)

decodeURL(url) == Decode(url, 1)

\* ------------------------------------------------------------------ state

VARIABLES
    providers,      \* var providers: the registry, a sequence of Provider records
    prvKeys,        \* var prvKeys: the provider names read from the rule-set
    storage,        \* the storage object: settings, log, rule-set, hash, status
    dataHash,       \* var dataHash: the hash text of the hash response
    localDataHash,  \* var localDataHash: the hash text cached at startup
    request,        \* the request the host dispatches next or dispatched last
    action,         \* what clearUrl returned for it
    trace,          \* what the last run of clearUrl or of the engine did
    net,            \* the update pipeline: its position and its fetches
    phase           \* the position of the behaviour in its specification

vars == <<providers, prvKeys, storage, dataHash, localDataHash, request,
          action, trace, net, phase>>

\* var siteBlockedAlert = 'javascript:void(0)'
siteBlockedAlert ==
    <<"j", "a", "v", "a", "s", "c", "r", "i", "p", "t", ":",
      "v", "o", "i", "d", "(", "0", ")">>

\* ----------------------------------------------------------------Provider

Range(seq) == {seq[i] : i \in 1..Len(seq)}

\* obj[key] = true on an object whose keys are kept in insertion order
SetKey(keys, key) == IF key \in Range(keys) THEN keys ELSE Append(keys, key)

\* delete obj[key]
DelKey(keys, key) == SelectSeq(keys, LAMBDA k : k # key)

\* Object.assign(target, source) on the key lists
RECURSIVE AssignKeys(_, _)
AssignKeys(target, source) ==
    IF Len(source) = 0 THEN target
    ELSE AssignKeys(SetKey(target, source[1]), Tail(source))

\* new Provider(_name, _completeProvider, _forceRedirection); the URL
\* pattern is undefined until setURLPattern.
Provider(name, completeProvider, forceRedirection) ==
    [name |-> name,
     urlPattern |-> [kind |-> "undefined", s |-> <<>>],
     canceling |-> completeProvider,
     forceRedirection |-> forceRedirection,
     enabled_rules |-> IF completeProvider THEN <<[kind |-> "any", s |-> <<>>]>> ELSE <<>>,
     disabled_rules |-> <<>>,
     enabled_exceptions |-> <<>>,
     disabled_exceptions |-> <<>>,
     enabled_redirections |-> <<>>,
     disabled_redirections |-> <<>>,
     enabled_rawRules |-> <<>>,
     disabled_rawRules |-> <<>>,
     enabled_referralMarketing |-> <<>>,
     disabled_referralMarketing |-> <<>>]

setURLPattern(prov, urlPatterns) == [prov EXCEPT !.urlPattern = urlPatterns]

\* applyRule without its delete: the rule is set in the target list and
\* stays in the other one.
applyRule_NoDelete(enabled, disabled, rule, isActive) ==
    IF isActive
    THEN [enabled |-> SetKey(enabled, rule), disabled |-> disabled]
    ELSE [enabled |-> enabled, disabled |-> SetKey(disabled, rule)]

\* The two key lists after applyRule: the rule is set in one and deleted from
\* the other.
applyRule(enabled, disabled, rule, isActive) ==
    IF isActive
    THEN [enabled |-> SetKey(enabled, rule), disabled |-> DelKey(disabled, rule)]
    ELSE [enabled |-> DelKey(enabled, rule), disabled |-> SetKey(disabled, rule)]

addRule(prov, rule, isActive) ==
    LET r == applyRule(prov.enabled_rules, prov.disabled_rules,
                       [kind |-> "field", s |-> rule], isActive)
    IN  [prov EXCEPT !.enabled_rules = r.enabled, !.disabled_rules = r.disabled]

addRawRule(prov, rule, isActive) ==
    LET r == applyRule(prov.enabled_rawRules, prov.disabled_rawRules, rule, isActive)
    IN  [prov EXCEPT !.enabled_rawRules = r.enabled, !.disabled_rawRules = r.disabled]

addReferralMarketing(prov, rule, isActive) ==
    LET r == applyRule(prov.enabled_referralMarketing, prov.disabled_referralMarketing,
                       [kind |-> "ref", s |-> rule], isActive)
    IN  [prov EXCEPT !.enabled_referralMarketing = r.enabled,
                     !.disabled_referralMarketing = r.disabled]

addException(prov, exception, isActive) ==
    IF isActive
    THEN [prov EXCEPT !.enabled_exceptions = SetKey(@, exception),
                      !.disabled_exceptions = DelKey(@, exception)]
    ELSE [prov EXCEPT !.disabled_exceptions = SetKey(@, exception),
                      !.enabled_exceptions = DelKey(@, exception)]

addRedirection(prov, redirection, isActive) ==
    IF isActive
    THEN [prov EXCEPT !.enabled_redirections = SetKey(@, redirection),
                      !.disabled_redirections = DelKey(@, redirection)]
    ELSE [prov EXCEPT !.disabled_redirections = SetKey(@, redirection),
                      !.enabled_redirections = DelKey(@, redirection)]

\* getRules(): the rules returned and the provider afterwards; with
\* referral-marketing enforcement off Object.assign writes the referral
\* keys into enabled_rules.
getRules(prov) ==
    IF ~storage.referralMarketing
    THEN LET merged == AssignKeys(prov.enabled_rules, prov.enabled_referralMarketing)
         IN  [rules |-> merged, prov |-> [prov EXCEPT !.enabled_rules = merged]]
    ELSE [rules |-> prov.enabled_rules, prov |-> prov]

getRawRules(prov) == prov.enabled_rawRules

isCaneling(prov) == prov.canceling

\* A provider that always requires forced redirection.
shouldForceRedirect_Always(prov) == TRUE

shouldForceRedirect(prov) == prov.forceRedirection

\* matchException reading the disabled exceptions as well as the enabled ones.
matchException_AnyException(prov, url) ==
    \/ url = siteBlockedAlert
    \/ \E i \in 1..Len(prov.enabled_exceptions) :
          RegexTest(url, prov.enabled_exceptions[i])
    \/ \E i \in 1..Len(prov.disabled_exceptions) :
          RegexTest(url, prov.disabled_exceptions[i])

\* matchException without the comparison with siteBlockedAlert.
matchException_NoSentinel(prov, url) ==
    \E i \in 1..Len(prov.enabled_exceptions) :
        RegexTest(url, prov.enabled_exceptions[i])

matchException(prov, url) ==
    \/ url = siteBlockedAlert
    \/ \E i \in 1..Len(prov.enabled_exceptions) :
          RegexTest(url, prov.enabled_exceptions[i])

matchURL(prov, url) ==
    RegexTest(url, prov.urlPattern) /\ ~matchException(prov, url)

\* matchURL(url) throws: urlPattern was never set (the call of test on
\* undefined), or matchException reaches an enabled exception that is no
\* regular expression before one that matches.
matchURLThrows(prov, url) ==
    \/ prov.urlPattern.kind = "undefined"
    \/ /\ RegexTest(url, prov.urlPattern)
       /\ url # siteBlockedAlert
       /\ \E k \in 1..Len(prov.enabled_exceptions) :
             /\ ~Compiles(prov.enabled_exceptions[k])
             /\ \A j \in 1..(k - 1) :
                   /\ Compiles(prov.enabled_exceptions[j])
                   /\ ~RegexTest(url, prov.enabled_exceptions[j])

\* getRedirection that never finds a redirection.
getRedirection_Null(prov, url) == [found |-> FALSE, re |-> <<>>, threw |-> FALSE]

\* getRedirection(url): the first capture group of the first enabled
\* redirection that matches, or null; the call throws at a redirection that
\* is no regular expression.
RECURSIVE FirstRedirection(_, _)
FirstRedirection(redirections, url) ==
    IF Len(redirections) = 0 THEN [found |-> FALSE, re |-> <<>>, threw |-> FALSE]
    ELSE IF ~Compiles(redirections[1])
    THEN [found |-> FALSE, re |-> <<>>, threw |-> TRUE]
    ELSE IF RegexTest(url, redirections[1])
    THEN [found |-> TRUE, re |-> RegexGroup1(url, redirections[1]), threw |-> FALSE]
    ELSE FirstRedirection(Tail(redirections), url)

getRedirection(prov, url) == FirstRedirection(prov.enabled_redirections, url)

\* ------------------------------------------------------------------ engine

\* translate(key): the label logged as the rule of a redirect, a domain
\* block or a ping block.
translate(key) == [kind |-> "label", s |-> <<key>>]

LogCall(before, after, rule) == [before |-> before, after |-> after, rule |-> rule]

\* One turn of the raw-rule loop on acc = [url, logs, badge, changes, threw];
\* logs are the calls of pushToLog, badge counts the calls of increaseBadged,
\* threw tells that new RegExp threw on the rule.
RawStep(rawRule, acc, quiet) ==
    IF ~Compiles(rawRule) THEN [acc EXCEPT !.threw = TRUE]
    ELSE
    Bind(RegexRemoveAll(acc.url, rawRule), LAMBDA url :
        IF acc.url # url
        THEN [url |-> url,
              logs |-> IF storage.loggingStatus /\ ~quiet
                       THEN Append(acc.logs, LogCall(acc.url, url, rawRule))
                       ELSE acc.logs,
              badge |-> acc.badge + 1,
              changes |-> TRUE,
              threw |-> FALSE]
        ELSE acc)

\* The raw-rule pass: rawRules.forEach.
RECURSIVE RawPass(_, _, _)
RawPass(rawRules, acc, quiet) ==
    IF Len(rawRules) = 0 \/ acc.threw THEN acc
    ELSE Bind(RawStep(rawRules[1], acc, quiet), LAMBDA next :
             RawPass(Tail(rawRules), next, quiet))

\* The URL logged for a field-rule step: the domain, then the query and the
\* fragment text without their leading mark and a leading "&".
LoggedURL(domain, fields, fragments) ==
    domain
    \o (IF fields # <<>>
        THEN <<"?">> \o ReplaceFirst(ReplaceFirst(fields, <<"?", "&">>, <<"?">>), <<"?">>, <<>>)
        ELSE <<>>)
    \o (IF fragments # <<>>
        THEN <<"#">> \o ReplaceFirst(ReplaceFirst(fragments, <<"#", "&">>, <<"#">>), <<"#">>, <<>>)
        ELSE <<>>)

\* What one field rule removes from the fields and from the fragments.
FieldReplace(rule, acc) ==
    [fields |-> RegexRemoveAll(acc.fields, rule),
     fragments |-> RegexRemoveAll(acc.fragments, rule)]

\* One turn of the field-rule loop on acc = [fields, fragments, logs, badge,
\* changes, threw].
FieldStep(rule, acc, domain, quiet) ==
    IF ~Compiles(rule) THEN [acc EXCEPT !.threw = TRUE]
    ELSE
    Bind(FieldReplace(rule, acc), LAMBDA now :
        IF acc.fields # now.fields \/ acc.fragments # now.fragments
        THEN [fields |-> now.fields,
              fragments |-> now.fragments,
              logs |-> IF storage.loggingStatus /\ ~quiet
                       THEN Append(acc.logs,
                                   LogCall(LoggedURL(domain, acc.fields, acc.fragments),
                                           LoggedURL(domain, now.fields, now.fragments),
                                           rule))
                       ELSE acc.logs,
              badge |-> acc.badge + 1,
              changes |-> TRUE,
              threw |-> FALSE]
        ELSE acc)

\* The field-rule pass: rules.forEach.
RECURSIVE FieldPass(_, _, _, _)
FieldPass(rules, acc, domain, quiet) ==
    IF Len(rules) = 0 \/ acc.threw THEN acc
    ELSE Bind(FieldStep(rules[1], acc, domain, quiet), LAMBDA next :
             FieldPass(Tail(rules), next, domain, quiet))

\* The URL put together without the closing replace of "?&" and "#&".
FinalURL_NoTidy(domain, fields, fragments) ==
    domain
    \o (IF fields # <<>> THEN <<"?">> \o ReplaceFirst(fields, <<"?">>, <<>>) ELSE <<>>)
    \o (IF fragments # <<>> THEN <<"#">> \o ReplaceFirst(fragments, <<"#">>, <<>>) ELSE <<>>)

\* The URL put together after the field pass.
FinalURL(domain, fields, fragments) ==
    LET finalURL == domain
                    \o (IF fields # <<>>
                        THEN <<"?">> \o ReplaceFirst(fields, <<"?">>, <<>>) ELSE <<>>)
                    \o (IF fragments # <<>>
                        THEN <<"#">> \o ReplaceFirst(fragments, <<"#">>, <<>>) ELSE <<>>)
    IN  ReplaceFirst(ReplaceFirst(finalURL, <<"?", "&">>, <<"?">>), <<"#", "&">>, <<"#">>)

\* The domain of lines 78-83: the query cut wins over the fragment cut.
DomainOf(url) ==
    IF existsFields(url) THEN CutAt(url, "?")
    ELSE IF existsFragments(url) THEN CutAt(url, "#")
    ELSE <<>>

\* What a call of removeFieldsFormURL comes to.  The record holds the
\* returned object (redirect, changes, url, cancel; a missing key reads as
\* FALSE), whether the call threw instead of returning, the calls of
\* pushToLog and the number of calls of increaseBadged it made, the provider
\* as getRules left it and the steps of the algorithm it ran.  This one is the
\* return for a skipped local URL.
Untouched(prov, pureUrl) ==
    [redirect |-> FALSE, changes |-> FALSE, url |-> pureUrl, cancel |-> FALSE,
     threw |-> FALSE, logs |-> <<>>, badge |-> 0, prov |-> prov, steps |-> {}]

\* The call threw after the steps given, on the state acc = [url, logs,
\* badge] it had reached.
Thrown(prov, pureUrl, acc, steps) ==
    [Untouched(prov, pureUrl) EXCEPT !.threw = TRUE, !.url = acc.url,
                                     !.logs = acc.logs, !.badge = acc.badge,
                                     !.steps = steps]

\* The redirection branch: decodeURL on the capture, the log call and the
\* return of the redirect result.
RedirectResult(prov, pureUrl, quiet, raw, target) ==
    IF ~DecodeOk(target, 1)
    THEN Thrown(prov, pureUrl, raw, {"raw", "redirection"})
    ELSE Bind(decodeURL(target), LAMBDA url :
             [Untouched(prov, pureUrl) EXCEPT
                  !.redirect = TRUE,
                  !.url = url,
                  !.logs = IF ~quiet
                           THEN Append(raw.logs,
                                       LogCall(pureUrl, url, translate("log_redirect")))
                           ELSE raw.logs,
                  !.badge = raw.badge,
                  !.steps = {"raw", "redirection"}])

\* fields = "?" + extractFileds(url).rmEmpty().join("&") when the URL has fields
FieldsOf(url) ==
    IF existsFields(url) THEN <<"?">> \o Join(rmEmpty(extractFileds(url))) ELSE <<>>

\* fragments = "#" + extractFragments(url).rmEmpty().join("&") when it has fragments
FragmentsOf(url) ==
    IF existsFragments(url) THEN <<"#">> \o Join(rmEmpty(extractFragments(url))) ELSE <<>>

\* The field pass when there is something to clean, on the state the raw
\* pass left; the url of the result is the URL put together afterwards.
Cleaned(rules, raw, quiet) ==
    Bind([fields |-> FieldsOf(raw.url), fragments |-> FragmentsOf(raw.url),
          logs |-> raw.logs, badge |-> raw.badge, changes |-> raw.changes,
          threw |-> FALSE],
         LAMBDA start :
        IF start.fields # <<>> \/ start.fragments # <<>>
        THEN Bind(FieldPass(rules, start, DomainOf(raw.url), quiet), LAMBDA fp :
                 [url |-> IF fp.threw THEN raw.url
                          ELSE FinalURL(DomainOf(raw.url), fp.fields, fp.fragments),
                  logs |-> fp.logs, badge |-> fp.badge, changes |-> fp.changes,
                  ran |-> TRUE, threw |-> fp.threw])
        ELSE [url |-> raw.url, logs |-> raw.logs, badge |-> raw.badge,
              changes |-> raw.changes, ran |-> FALSE, threw |-> FALSE])

\* A final return in which a change takes the place of the cancellation.
CleanResult_ChangesWin(prov, rules, pureUrl, quiet, raw) ==
    Bind(Cleaned(rules, raw, quiet), LAMBDA fp :
        LET block == isCaneling(prov) /\ storage.domainBlocking /\ ~fp.changes
        IN  IF fp.threw THEN Thrown(prov, pureUrl, fp, {"raw", "redirection", "fields"})
            ELSE
            [Untouched(prov, pureUrl) EXCEPT
                 !.changes = fp.changes,
                 !.url = fp.url,
                 !.cancel = block,
                 !.logs = IF block /\ ~quiet
                          THEN Append(fp.logs,
                                      LogCall(pureUrl, pureUrl,
                                              translate("log_domain_blocked")))
                          ELSE fp.logs,
                 !.badge = fp.badge + (IF block THEN 1 ELSE 0),
                 !.steps = {"raw", "redirection", "block"}
                           \cup (IF fp.ran THEN {"fields"} ELSE {})])

\* The branch without a redirection: the field and fragment pass, the
\* domain-block check and the final return.
CleanResult(prov, rules, pureUrl, quiet, raw) ==
    Bind(Cleaned(rules, raw, quiet), LAMBDA fp :
        LET block == isCaneling(prov) /\ storage.domainBlocking
        IN  IF fp.threw THEN Thrown(prov, pureUrl, fp, {"raw", "redirection", "fields"})
            ELSE
            [Untouched(prov, pureUrl) EXCEPT
                 !.changes = fp.changes,
                 !.url = fp.url,
                 !.cancel = block,
                 !.logs = IF block /\ ~quiet
                          THEN Append(fp.logs,
                                      LogCall(pureUrl, pureUrl,
                                              translate("log_domain_blocked")))
                          ELSE fp.logs,
                 !.badge = fp.badge + (IF block THEN 1 ELSE 0),
                 !.steps = {"raw", "redirection", "block"}
                           \cup (IF fp.ran THEN {"fields"} ELSE {})])

\* removeFieldsFormURL(provider, pureUrl, quiet)
removeFieldsFormURL(provider, pureUrl, quiet) ==
    Bind(getRules(provider), LAMBDA got :
        IF storage.localHostsSkipping /\ checkLocalURL(pureUrl)
        THEN Untouched(got.prov, pureUrl)
        ELSE Bind(RawPass(getRawRules(got.prov),
                          [url |-> pureUrl, logs |-> <<>>, badge |-> 0,
                           changes |-> FALSE, threw |-> FALSE],
                          quiet),
                  LAMBDA raw :
                 IF raw.threw THEN Thrown(got.prov, pureUrl, raw, {"raw"})
                 ELSE
                 Bind(getRedirection(got.prov, raw.url), LAMBDA re :
                     IF re.threw
                     THEN Thrown(got.prov, pureUrl, raw, {"raw", "redirection"})
                     ELSE IF re.found
                     THEN RedirectResult(got.prov, pureUrl, quiet, raw, re.re)
                     ELSE CleanResult(got.prov, got.rules, pureUrl, quiet, raw))))

\* ------------------------------------------------------- registry build

\* Object.prototype.getOrDefault(key, default)
getOrDefault(obj, key, default) == IF key \in DOMAIN obj THEN obj[key] ELSE default

\* data.providers[key] of a rule-set document, a sequence of entries in
\* document order, each entry holding its provider name.
EntryOf(data, key) == data[CHOOSE i \in 1..Len(data) : data[i].name = key]

\* One of the five add loops of createProviders: every item of the array is
\* added with the default isActive = true.
RECURSIVE AddAll(_, _, _)
AddAll(prov, items, kind) ==
    IF Len(items) = 0 THEN prov
    ELSE AddAll(CASE kind = "rules" -> addRule(prov, items[1], TRUE)
                  [] kind = "rawRules" -> addRawRule(prov, items[1], TRUE)
                  [] kind = "referralMarketing" -> addReferralMarketing(prov, items[1], TRUE)
                  [] kind = "exceptions" -> addException(prov, items[1], TRUE)
                  [] kind = "redirections" -> addRedirection(prov, items[1], TRUE),
                Tail(items), kind)

\* The body of the loop of createProviders for index p, on the provider
\* stored at index p of the registry.
ConfigureProvider(prov, entry) ==
    LET p1 == setURLPattern(prov, getOrDefault(entry, "urlPattern", Lit(<<>>)))
        p2 == AddAll(p1, getOrDefault(entry, "rules", <<>>), "rules")
        p3 == AddAll(p2, getOrDefault(entry, "rawRules", <<>>), "rawRules")
        p4 == AddAll(p3, getOrDefault(entry, "referralMarketing", <<>>), "referralMarketing")
        p5 == AddAll(p4, getOrDefault(entry, "exceptions", <<>>), "exceptions")
    IN  AddAll(p5, getOrDefault(entry, "redirections", <<>>), "redirections")

\* The document has an entry for the key; data.providers[key] is undefined
\* otherwise, and reading a property of it throws.
HasEntry(data, key) == \E i \in 1..Len(data) : data[i].name = key

\* createProviders(): for every key a new Provider is pushed and the
\* provider at the key's index is configured.  setURLPattern compiles the
\* pattern: on a text that is no regular expression it throws, which ends
\* the loop with the provider pushed and nothing of it set.
RECURSIVE createProviders(_, _, _, _)
createProviders(p, provs, keys, data) ==
    IF p > Len(keys) THEN [providers |-> provs, threw |-> FALSE]
    ELSE IF ~HasEntry(data, keys[p]) THEN [providers |-> provs, threw |-> TRUE]
    ELSE LET entry == EntryOf(data, keys[p])
             pushed == Append(provs, Provider(keys[p],
                                  getOrDefault(entry, "completeProvider", FALSE),
                                  getOrDefault(entry, "forceRedirection", FALSE)))
         IN  IF ~Compiles(getOrDefault(entry, "urlPattern", Lit(<<>>)))
             THEN [providers |-> pushed, threw |-> TRUE]
             ELSE createProviders(p + 1,
                                  [pushed EXCEPT ![p] = ConfigureProvider(pushed[p], entry)],
                                  keys, data)

\* getKeys(obj): the keys of the document are pushed to prvKeys.
getKeys(keys, data) == keys \o [i \in 1..Len(data) |-> data[i].name]

\* toObject(retrievedText): the registry and the key list afterwards, and
\* whether the call threw.
toObject(provs, keys, data) ==
    LET ks == getKeys(keys, data)
        built == createProviders(1, provs, ks, data)
    IN  [prvKeys |-> ks, providers |-> built.providers, threw |-> built.threw]

\* -------------------------------------------------------------------- log

\* pushToLog(beforeProcessing, afterProcessing, rule) on storage.log.log; the
\* timestamp of an entry is left out.
RECURSIVE ShiftTo(_, _)
ShiftTo(log, limit) == IF Len(log) >= limit THEN ShiftTo(Tail(log), limit) ELSE log

\* pushToLog without the eviction loop.
pushToLog_NoShift(log, call) ==
    IF storage.loggingStatus /\ storage.logLimit # 0 THEN Append(log, call) ELSE log

pushToLog(log, call) ==
    LET limit == storage.logLimit
    IN  IF storage.loggingStatus /\ limit # 0
        THEN Append(IF limit > 0 THEN ShiftTo(log, limit) ELSE log, call)
        ELSE log

RECURSIVE PushAll(_, _)
PushAll(log, calls) ==
    IF Len(calls) = 0 THEN log ELSE PushAll(pushToLog(log, calls[1]), Tail(calls))

\* -------------------------------------------------------------- dispatcher

Pass == [kind |-> "pass", url |-> <<>>]
Cancel == [kind |-> "cancel", url |-> <<>>]
Redirect(url) == [kind |-> "redirect", url |-> url]
Throw == [kind |-> "throw", url |-> <<>>]
NoTab == [kind |-> "none", url |-> <<>>]

\* A default result that reports a change.
DefaultResult_Changed ==
    [changes |-> TRUE, url |-> <<>>, redirect |-> FALSE, cancel |-> FALSE]

\* let result = {changes: false, url: "", redirect: false, cancel: false}
DefaultResult == [changes |-> FALSE, url |-> <<>>, redirect |-> FALSE, cancel |-> FALSE]

\* What one run of clearUrl did: the action returned, the call of
\* browser.tabs.update, the calls of pushToLog, the number of calls of
\* increaseBadged, the registry afterwards, the providers whose engine ran
\* and the index of the provider at which the loop returned (0: none).
Outcome(act, tab, acc, by) ==
    [action |-> act, tab |-> tab, logs |-> acc.logs, badge |-> acc.badge,
     provs |-> acc.provs, ran |-> acc.ran, by |-> by]

\* result = removeFieldsFormURL(providers[i], request.url): the result, the
\* registry, the log calls, the badge count and the providers run, after the
\* engine ran for provider i.
Ran(acc, i, res) ==
    [result |-> [changes |-> res.changes, url |-> res.url,
                 redirect |-> res.redirect, cancel |-> res.cancel],
     provs |-> [acc.provs EXCEPT ![i] = res.prov],
     logs |-> acc.logs \o res.logs,
     badge |-> acc.badge + res.badge,
     ran |-> acc.ran \cup {i}]

\* The provider loop of clearUrl from index i on; acc = [result, provs, logs,
\* badge, ran].  Branch is the part of the loop body after the matchURL test,
\* which runs whether or not the provider matched.
RECURSIVE ProviderLoop(_, _, _)

\* A loop body that does not return on a changed result.
Branch_NoChangesReturn(i, req, now) ==
    IF now.result.redirect
    THEN IF shouldForceRedirect(now.provs[i]) /\ req.type = "main_frame"
         THEN Outcome(Cancel, [kind |-> "update", url |-> now.result.url], now, i)
         ELSE Outcome(Redirect(now.result.url), NoTab, now, i)
    ELSE IF now.result.cancel
    THEN IF req.type = "main_frame"
         THEN Outcome(Cancel, [kind |-> "blockingPage", url |-> req.url], now, i)
         ELSE Outcome(Redirect(siteBlockedAlert), NoTab, now, i)
    ELSE ProviderLoop(i + 1, req, now)

Branch(i, req, now) ==
    IF now.result.redirect
    THEN IF shouldForceRedirect(now.provs[i]) /\ req.type = "main_frame"
         THEN Outcome(Cancel, [kind |-> "update", url |-> now.result.url], now, i)
         ELSE Outcome(Redirect(now.result.url), NoTab, now, i)
    ELSE IF now.result.cancel
    THEN IF req.type = "main_frame"
         THEN Outcome(Cancel, [kind |-> "blockingPage", url |-> req.url], now, i)
         ELSE Outcome(Redirect(siteBlockedAlert), NoTab, now, i)
    ELSE IF now.result.changes
    THEN Outcome(Redirect(now.result.url), NoTab, now, i)
    ELSE ProviderLoop(i + 1, req, now)

ProviderLoop(i, req, acc) ==
    IF i > Len(acc.provs) THEN Outcome(Pass, NoTab, acc, 0)
    ELSE IF matchURLThrows(acc.provs[i], req.url) THEN Outcome(Throw, NoTab, acc, i)
    ELSE IF matchURL(acc.provs[i], req.url)
    THEN Bind(removeFieldsFormURL(acc.provs[i], req.url, FALSE), LAMBDA res :
             Bind(Ran(acc, i, res), LAMBDA now :
                 IF res.threw THEN Outcome(Throw, NoTab, now, i)
                 ELSE Branch(i, req, now)))
    ELSE Branch(i, req, acc)

\* clearUrl without the ping check: a ping goes through the providers.
clearUrl_NoPingCheck(provs, req) ==
    LET start == [result |-> DefaultResult, provs |-> provs, logs |-> <<>>,
                  badge |-> 0, ran |-> {}]
    IN  IF ~storage.globalStatus THEN Outcome(Pass, NoTab, start, 0)
        ELSE ProviderLoop(1, req, start)

\* clearUrl(request) on the registry provs.
clearUrl(provs, req) ==
    LET start == [result |-> DefaultResult, provs |-> provs, logs |-> <<>>,
                  badge |-> 0, ran |-> {}]
    IN  IF ~storage.globalStatus THEN Outcome(Pass, NoTab, start, 0)
        ELSE IF storage.pingBlocking /\ req.type \in storage.pingRequestTypes
        THEN Outcome(Cancel, NoTab,
                     [start EXCEPT !.logs = <<LogCall(req.url, req.url,
                                                      translate("log_ping_blocked"))>>,
                                   !.badge = 1],
                     0)
        ELSE ProviderLoop(1, req, start)

\* promise(requestDetails): data URLs are not handed to clearUrl.
isDataURL(req) == Len(req.url) >= 4 /\ Take(req.url, 4) = <<"d", "a", "t", "a">>

promise(provs, req) ==
    IF isDataURL(req)
    THEN Outcome(Pass, NoTab,
                 [provs |-> provs, logs |-> <<>>, badge |-> 0, ran |-> {}], 0)
    ELSE clearUrl(provs, req)

\* ------------------------------------------------------------------ inputs

MaxChunks == 3      \* chunks after the host in a URL given to the engine
MaxReqChunks == 2   \* chunks after the host in a URL of an intercepted request
MaxLog == 2         \* the largest configured log limit
MaxRuns == 2        \* the runs of the update pipeline
MaxTabs == 2        \* the tabs of the browser
MaxPending == 2     \* platform checks of increaseBadged not yet settled
MaxBadge == 2       \* the increments of one run
MaxURL == 18        \* the longest URL the host follows a redirect to

Chunks ==
    { <<"?", "s", "=", "2">>,
      <<"&", "t", "=", "6">>,
      <<"#", "s", "=", "2">>,
      <<"/", "e">>,
      <<"/", "t">>,
      <<"?", "r", "=", "v">>,
      <<"/", "s", "s", "t", "t">>,
      <<"%", "2", "6">>,
      <<"%">> }

RECURSIVE Flatten(_)
Flatten(cs) == IF Len(cs) = 0 THEN <<>> ELSE cs[1] \o Flatten(Tail(cs))

\* The chunks of the URLs of intercepted requests.
RequestChunks == Chunks \ {<<"/", "s", "s", "t", "t">>, <<"%", "2", "6">>}

\* The URLs of host "v" followed by at most n of the chunks.
URLsUpTo(chunks, n) ==
    {<<"v">> \o Flatten(cs) : cs \in UNION {[1..k -> chunks] : k \in 0..n}}

LocalURLs == {<<"l">>, <<"l", "?", "s", "=", "2">>}
DataURLs == {<<"d", "a", "t", "a", ":", "?", "s", "=", "2">>}

EngineURLs == URLsUpTo(Chunks, MaxChunks) \cup LocalURLs
RequestURLs == URLsUpTo(RequestChunks, MaxReqChunks) \cup LocalURLs \cup DataURLs

RequestTypes == {"main_frame", "image", "ping"}
PingRequestTypes == {"ping", "beacon"}

Redir(prefix) == [kind |-> "redir", s |-> prefix]

\* The rule-set documents: sequences of provider entries in document order;
\* a key an entry leaves out takes its default.
RuleSetA ==
    << [name |-> "p1", urlPattern |-> Lit(<<"v">>),
        rules |-> << <<"s">> >>, referralMarketing |-> << <<"t">> >>,
        exceptions |-> << Lit(<<"/", "e">>) >>,
        redirections |-> << Redir(<<"r", "=">>) >>],
       [name |-> "p2", urlPattern |-> Lit(<<"/">>), forceRedirection |-> TRUE,
        rules |-> << <<"t">> >>, rawRules |-> << Lit(<<"s", "t">>) >>] >>

RuleSetB ==
    << [name |-> "p1", urlPattern |-> Lit(<<"v", "/">>), completeProvider |-> TRUE,
        exceptions |-> << Lit(<<"/", "e">>) >>],
       [name |-> "p2", urlPattern |-> Lit(<<>>), forceRedirection |-> TRUE,
        rules |-> << <<"s">>, <<"t">> >>,
        redirections |-> << Redir(<<"?", "r", "=">>) >>] >>

RuleSetC ==
    << [name |-> "p1", urlPattern |-> Lit(<<"v">>),
        rawRules |-> << Lit(<<"/", "t">>) >>, rules |-> << <<"s">> >>,
        redirections |-> << Redir(<<"/", "t", "?", "r", "=">>) >>] >>

RuleSetD ==
    << [name |-> "p1", urlPattern |-> Lit(<<"v", "?">>), completeProvider |-> TRUE,
        redirections |-> << Redir(<<"&", "t", "=">>) >>],
       [name |-> "p2", urlPattern |-> Lit(<<"/", "e">>),
        redirections |-> << Redir(<<>>) >>] >>

\* Two providers that match the same URLs and clean different fields.
RuleSetG ==
    << [name |-> "p1", urlPattern |-> Lit(<<"v">>), rules |-> << <<"t">> >>],
       [name |-> "p2", urlPattern |-> Lit(<<"?">>), rules |-> << <<"s">> >>] >>

\* The rule-sets with exceptions, redirections or complete providers.
ChainRuleSets == {RuleSetA, RuleSetB, RuleSetC, RuleSetD}

RuleSets == ChainRuleSets \cup {RuleSetG}

\* A pattern text that is no regular expression.
Bad == [kind |-> "bad", s |-> <<"(">>]

\* A rule-set whose URL patterns compile and which holds, per kind, a rule that
\* is no regular expression.
RuleSetE ==
    << [name |-> "p1", urlPattern |-> Lit(<<"/", "e">>), rawRules |-> << Bad >>],
       [name |-> "p2", urlPattern |-> Lit(<<"/", "t">>), exceptions |-> << Bad >>],
       [name |-> "p3", urlPattern |-> Lit(<<"#">>), rules |-> << <<"(">> >>],
       [name |-> "p4", urlPattern |-> Lit(<<"?", "r">>), redirections |-> << Bad >>] >>

\* A rule-set whose second provider has a URL pattern that is no regular
\* expression.
RuleSetF ==
    << [name |-> "p1", urlPattern |-> Lit(<<"v", "/">>), rules |-> << <<"s">> >>],
       [name |-> "p2", urlPattern |-> Bad, rules |-> << <<"t">> >>],
       [name |-> "p3", urlPattern |-> Lit(<<"v">>), rules |-> << <<"t">> >>] >>

\* storage.ClearURLsData holds a parsed document or a text.
Obj(doc) == [form |-> "object", doc |-> doc, text |-> <<>>]
Txt(text) == [form |-> "text", doc |-> <<>>, text |-> text]

\* The storage object with the rule-set document data cached.
StorageOf(data, globalStatus, pingBlocking, localHostsSkipping, domainBlocking, referralMarketing, loggingStatus, logLimit) ==
    [globalStatus |-> globalStatus,
     pingBlocking |-> pingBlocking,
     pingRequestTypes |-> PingRequestTypes,
     localHostsSkipping |-> localHostsSkipping,
     domainBlocking |-> domainBlocking,
     referralMarketing |-> referralMarketing,
     loggingStatus |-> loggingStatus,
     logLimit |-> logLimit,
     log |-> <<>>,
     ClearURLsData |-> Obj(data),
     dataHash |-> <<"hA">>,
     hashStatus |-> "none"]

NoOutcome ==
    [action |-> [kind |-> "none", url |-> <<>>], tab |-> NoTab, logs |-> <<>>,
     badge |-> 0, provs |-> <<>>, ran |-> {}, by |-> 0]

NoResponse == [kind |-> "none", ok |-> FALSE, body |-> <<>>]

\* The update pipeline before getHash: no fetch issued, nothing received.
IdleNet ==
    [pc |-> "idle", hashFetches |-> 0, ruleFetches |-> 0, hashResp |-> NoResponse,
     ruleResp |-> NoResponse, threw |-> FALSE, saved |-> {}]

\* ------------------------------------------------- request interception

\* The extension after start() built the registry from the cached rule-set;
\* the host is about to dispatch a request.  A disabled extension reads no
\* other setting, so with globalStatus off the other settings are off.
Init ==
    \E data \in RuleSets, gs, pb, db, lg \in BOOLEAN, req \in RequestURLs,
       type \in RequestTypes :
        LET built == toObject(<<>>, <<>>, data)
        IN  /\ gs \/ ~(pb \/ db \/ lg)
            /\ storage = StorageOf(data, gs, pb, TRUE, db, FALSE, lg, MaxLog)
            /\ providers = built.providers
            /\ prvKeys = built.prvKeys
            /\ dataHash = <<"hA">>
            /\ localDataHash = <<"hA">>
            /\ request = [url |-> req, type |-> type]
            /\ action = NoOutcome.action
            /\ trace = NoOutcome
            /\ net = IdleNet
            /\ phase = "ready"

\* browser.webRequest.onBeforeRequest: the listener promise runs on the
\* request and its answer goes back to the host.
Intercept ==
    /\ phase = "ready"
    /\ \E out \in {promise(providers, request)} :
           /\ action' = out.action
           /\ trace' = out
           /\ providers' = out.provs
           /\ storage' = [storage EXCEPT !.log = PushAll(@, out.logs)]
    /\ phase' = "answered"
    /\ UNCHANGED <<prvKeys, dataHash, localDataHash, request, net>>

\* The host follows a redirectUrl: the request is dispatched again with the
\* new URL.  A cleaned URL can be longer than the request it came from (the
\* text before "?" is kept as the domain, fragment included, and the
\* fragment is appended again), so the length of a followed URL is capped.
Redispatch ==
    /\ phase = "answered"
    /\ action.kind = "redirect"
    /\ Len(action.url) <= MaxURL
    /\ request' = [request EXCEPT !.url = action.url]
    /\ phase' = "ready"
    /\ UNCHANGED <<providers, prvKeys, storage, dataHash, localDataHash, action,
                   trace, net>>

Next == Intercept \/ Redispatch

Spec == Init /\ [][Next]_vars

\* --------------------------------------------------- exceptions toggled

ToggledExceptions == {Lit(<<"/", "e">>)}

EnabledInit ==
    \E data \in ChainRuleSets, db \in BOOLEAN, req \in RequestURLs,
       type \in {"main_frame", "image"} :
        LET built == toObject(<<>>, <<>>, data)
        IN  /\ storage = StorageOf(data, TRUE, FALSE, TRUE, db, FALSE, TRUE, MaxLog)
            /\ providers = built.providers
            /\ prvKeys = built.prvKeys
            /\ dataHash = <<"hA">>
            /\ localDataHash = <<"hA">>
            /\ request = [url |-> req, type |-> type]
            /\ action = NoOutcome.action
            /\ trace = NoOutcome
            /\ net = IdleNet
            /\ phase = "ready"

\* A caller enables or disables an exception of a provider.
ToggleException ==
    /\ phase = "ready"
    /\ \E i \in 1..Len(providers), e \in ToggledExceptions, isActive \in BOOLEAN :
          providers' = [providers EXCEPT ![i] = addException(@, e, isActive)]
    /\ UNCHANGED <<prvKeys, storage, dataHash, localDataHash, request, action,
                   trace, net, phase>>

ExcNext == Intercept \/ Redispatch \/ ToggleException

ExcSpec == EnabledInit /\ [][ExcNext]_vars

\* The same registry and settings under fair dispatch: the listener answers
\* every request dispatched to it and the host follows every redirectUrl it
\* is given.
FairSpec == EnabledInit /\ [][Next]_vars /\ WF_vars(Intercept) /\ WF_vars(Redispatch)

\* ------------------------------------------------------- the engine alone

NoResult ==
    [redirect |-> FALSE, changes |-> FALSE, url |-> <<>>, cancel |-> FALSE,
     threw |-> FALSE, logs |-> <<>>, badge |-> 0, prov |-> <<>>, steps |-> {}]

\* One provider of a rule-set, one URL and the settings the engine reads.
\* Local-host skipping is off only for local URLs, domain blocking only for
\* complete providers, and referral-marketing enforcement is on only for
\* providers with referral rules: elsewhere the setting changes nothing.
EngineInit ==
    \E data \in RuleSets, lhs, db, rm \in BOOLEAN, url \in EngineURLs :
      \E i \in 1..Len(data) :
        /\ lhs \/ checkLocalURL(url)
        /\ db \/ getOrDefault(data[i], "completeProvider", FALSE)
        /\ rm => getOrDefault(data[i], "referralMarketing", <<>>) # <<>>
        /\ storage = StorageOf(data, TRUE, FALSE, lhs, db, rm, TRUE, MaxLog)
        /\ providers = <<toObject(<<>>, <<>>, data).providers[i]>>
        /\ prvKeys = <<data[i].name>>
        /\ dataHash = <<"hA">>
        /\ localDataHash = <<"hA">>
        /\ request = [url |-> url, type |-> "main_frame"]
        /\ action = NoOutcome.action
        /\ trace = [first |-> NoResult, second |-> NoResult]
        /\ net = IdleNet
        /\ phase = "ready"

\* removeFieldsFormURL(provider, url) on the URL.
EngineApply ==
    /\ phase = "ready"
    /\ \E res \in {removeFieldsFormURL(providers[1], request.url, FALSE)} :
           /\ trace' = [trace EXCEPT !.first = res]
           /\ providers' = <<res.prov>>
           /\ storage' = [storage EXCEPT !.log = PushAll(@, res.logs)]
    /\ phase' = "applied"
    /\ UNCHANGED <<prvKeys, dataHash, localDataHash, request, action, net>>

\* removeFieldsFormURL(provider, url') on the URL the first call returned.
EngineReapply ==
    /\ phase = "applied"
    /\ ~trace.first.redirect
    /\ ~trace.first.threw
    /\ \E res \in {removeFieldsFormURL(providers[1], trace.first.url, FALSE)} :
           /\ trace' = [trace EXCEPT !.second = res]
           /\ providers' = <<res.prov>>
           /\ storage' = [storage EXCEPT !.log = PushAll(@, res.logs)]
    /\ phase' = "reapplied"
    /\ UNCHANGED <<prvKeys, dataHash, localDataHash, request, action, net>>

EngineNext == EngineApply \/ EngineReapply

EngineSpec == EngineInit /\ [][EngineNext]_vars

\* ------------------------------------------------------- update pipeline

\* A text is a sequence of tokens; " " and "\n" are its whitespace.
Whitespace == {" ", "\n"}

\* $.trim(text)
RECURSIVE TrimLeft(_)
TrimLeft(s) == IF Len(s) > 0 /\ s[1] \in Whitespace THEN TrimLeft(Tail(s)) ELSE s
RECURSIVE TrimRight(_)
TrimRight(s) ==
    IF Len(s) > 0 /\ s[Len(s)] \in Whitespace THEN TrimRight(Take(s, Len(s) - 1)) ELSE s
Trim(s) == TrimRight(TrimLeft(s))

\* The rule-set texts a download can bring.
TextA == <<"{A}">>
TextB == <<"{B}">>
TextBnl == <<"{B}", "\n">>
TextBad == <<"{B">>

\* $.sha256(text): one digest per text.
sha256(text) ==
    CASE text = TextA   -> <<"hA">>
      [] text = TextB   -> <<"hB">>
      [] text = TextBnl -> <<"hBnl">>
      [] text = TextBad -> <<"hBad">>
      [] OTHER          -> <<"hOther">>

\* JSON.parse(value): a text is parsed, leading and trailing whitespace
\* allowed; any other value is first converted to a string, and for a
\* document object that string is no JSON text.
\* A parser that accepts every text.
JSONparses_AnyText(value) == value.form = "text"

JSONparses(value) ==
    value.form = "text" /\ Trim(value.text) \in {TextA, TextB}

JSONparse(value) ==
    Obj(IF Trim(value.text) = TextA THEN RuleSetA ELSE RuleSetB)

\* storeHashStatus(status_code)
storeHashStatus(code) ==
    CASE code = 1 -> "up_to_date"
      [] code = 2 -> "updated"
      [] code = 3 -> "hash_mismatch"
      [] OTHER    -> "unavailable"

\* response.ok && $.trim(text)
Usable(resp) == resp.kind = "response" /\ resp.ok /\ Trim(resp.body) # <<>>

\* A comparison of the two hashes as received, without $.trim.
HashChanged_Untrimmed(remote, local) == remote # local

\* A verification that accepts every download.
HashVerified_Always(downloaded, advertised) == TRUE

\* $.trim(dataHash) !== $.trim(localDataHash)
HashChanged(remote, local) == Trim(remote) # Trim(local)

\* $.trim(downloadedFileHash) === $.trim(dataHash)
HashVerified(downloaded, advertised) == Trim(downloaded) = Trim(advertised)

\* A hash check that stores the downloaded text in both branches.
StoreDownload_Adopting(store, responseText, advertised) ==
    IF HashVerified(sha256(responseText), advertised)
    THEN [store EXCEPT !.ClearURLsData = Txt(responseText),
                       !.dataHash = sha256(responseText),
                       !.hashStatus = storeHashStatus(2)]
    ELSE [store EXCEPT !.ClearURLsData = Txt(responseText),
                       !.hashStatus = storeHashStatus(3)]

\* A hash check that stores the digest of the download in both branches.
StoreDownload_HashAlways(store, responseText, advertised) ==
    IF HashVerified(sha256(responseText), advertised)
    THEN [store EXCEPT !.ClearURLsData = Txt(responseText),
                       !.dataHash = sha256(responseText),
                       !.hashStatus = storeHashStatus(2)]
    ELSE [store EXCEPT !.dataHash = sha256(responseText),
                       !.hashStatus = storeHashStatus(3)]

\* The hash check of checkResponse on the storage object: a download whose
\* digest is the advertised hash replaces the stored rule-set and hash with
\* status 2, any other download sets status 3 and nothing else.
StoreDownload(store, responseText, advertised) ==
    LET downloadedFileHash == sha256(responseText)
    IN  IF HashVerified(downloadedFileHash, advertised)
        THEN [store EXCEPT !.ClearURLsData = Txt(responseText),
                           !.dataHash = downloadedFileHash,
                           !.hashStatus = storeHashStatus(2)]
        ELSE [store EXCEPT !.hashStatus = storeHashStatus(3)]

HashBodies == {<<>>, <<"\n">>, <<"hA">>, <<"hA", "\n">>, <<"hB", "\n">>, <<"hBad">>}
RuleBodies == {<<>>, <<" ">>, TextA, TextB, TextBnl, TextBad}

Responses(bodies) ==
    {[kind |-> "error", ok |-> FALSE, body |-> <<>>]}
    \cup {[kind |-> "response", ok |-> ok, body |-> b] : ok \in BOOLEAN, b \in bodies}

\* The rule-set an earlier run cached, with its hash.
Cached == {[doc |-> RuleSetA, hash |-> <<"hA">>], [doc |-> RuleSetC, hash |-> <<"hC">>]}

\* The state after construction: an empty registry; storage holds the cached
\* rule-set, its hash and the status an earlier run left.
UpdateInit ==
    \E cached \in Cached,
       status \in {"none", "up_to_date", "updated", "hash_mismatch"} :
        /\ storage = [StorageOf(cached.doc, TRUE, FALSE, TRUE, TRUE, FALSE, TRUE, MaxLog)
                         EXCEPT !.dataHash = cached.hash, !.hashStatus = status]
        /\ providers = <<>>
        /\ prvKeys = <<>>
        /\ dataHash = <<>>
        /\ localDataHash = <<>>
        /\ request = [url |-> <<"v">>, type |-> "main_frame"]
        /\ action = NoOutcome.action
        /\ trace = NoOutcome
        /\ net = IdleNet
        /\ phase = "update"

\* start(): loadOldDataFromStore() reads the cached hash, getHash() issues
\* the fetch of the hash.
GetHash ==
    /\ net.pc = "idle"
    /\ localDataHash' = storage.dataHash
    /\ net' = [net EXCEPT !.pc = "hash_pending", !.hashFetches = @ + 1]
    /\ UNCHANGED <<providers, prvKeys, storage, dataHash, request, action, trace, phase>>

\* The hash fetch settles.  A rejected fetch runs no handler.  Otherwise the
\* handler of getHash runs on the response text.
HashResponse ==
    /\ net.pc = "hash_pending"
    /\ \E resp \in Responses(HashBodies) :
        IF resp.kind = "error"
        THEN /\ net' = [net EXCEPT !.pc = "done", !.hashResp = resp]
             /\ UNCHANGED <<providers, prvKeys, storage, dataHash>>
        ELSE IF ~Usable(resp)
        THEN /\ dataHash' = <<>>
             /\ net' = [net EXCEPT !.pc = "done", !.hashResp = resp]
             /\ UNCHANGED <<providers, prvKeys, storage>>
        ELSE IF HashChanged(resp.body, localDataHash)
        THEN /\ dataHash' = resp.body
             /\ net' = [net EXCEPT !.pc = "rules_pending", !.hashResp = resp,
                                   !.ruleFetches = @ + 1]
             /\ UNCHANGED <<providers, prvKeys, storage>>
        ELSE LET built == toObject(providers, prvKeys, storage.ClearURLsData.doc)
             IN  /\ dataHash' = resp.body
                 /\ providers' = built.providers
                 /\ prvKeys' = built.prvKeys
                 /\ IF built.threw
                    THEN /\ UNCHANGED storage
                         /\ net' = [net EXCEPT !.pc = "done", !.hashResp = resp,
                                               !.threw = TRUE]
                    ELSE /\ storage' = [storage EXCEPT !.hashStatus = storeHashStatus(1)]
                         /\ net' = [net EXCEPT !.pc = "done", !.hashResp = resp,
                                               !.saved = {"hashStatus"}]
    /\ UNCHANGED <<localDataHash, request, action, trace, phase>>

\* The rule-set fetch settles: checkResponse runs on the response text.
RuleResponse ==
    /\ net.pc = "rules_pending"
    /\ \E resp \in Responses(RuleBodies) :
        IF ~Usable(resp)
        THEN /\ net' = [net EXCEPT !.pc = "done", !.ruleResp = resp]
             /\ UNCHANGED <<providers, prvKeys, storage>>
        ELSE
        LET checked == StoreDownload(storage, resp.body, dataHash)
        IN  IF ~JSONparses(checked.ClearURLsData)
            THEN /\ storage' = checked
                 /\ net' = [net EXCEPT !.pc = "done", !.ruleResp = resp, !.threw = TRUE]
                 /\ UNCHANGED <<providers, prvKeys>>
            ELSE LET parsed == JSONparse(checked.ClearURLsData)
                     built == toObject(providers, prvKeys, parsed.doc)
                 IN  /\ storage' = [checked EXCEPT !.ClearURLsData = parsed]
                     /\ providers' = built.providers
                     /\ prvKeys' = built.prvKeys
                     /\ net' = IF built.threw
                               THEN [net EXCEPT !.pc = "done", !.ruleResp = resp,
                                                !.threw = TRUE]
                               ELSE [net EXCEPT !.pc = "done", !.ruleResp = resp,
                                                !.saved = {"ClearURLsData", "dataHash",
                                                           "hashStatus"}]
    /\ UNCHANGED <<dataHash, localDataHash, request, action, trace, phase>>

UpdateNext == GetHash \/ HashResponse \/ RuleResponse

UpdateSpec == UpdateInit /\ [][UpdateNext]_vars

\* ------------------------------------------------- the pipeline run again

\* start() is called again after a run of the pipeline has ended:
\* loadOldDataFromStore() reads the stored hash and getHash() issues the
\* fetch of the hash.  The registry and its key list are the module's
\* variables and keep their contents.
Restart ==
    /\ net.pc = "done"
    /\ net.hashFetches < MaxRuns
    /\ localDataHash' = storage.dataHash
    /\ net' = [IdleNet EXCEPT !.pc = "hash_pending", !.hashFetches = net.hashFetches + 1]
    /\ UNCHANGED <<providers, prvKeys, storage, dataHash, request, action, trace, phase>>

RerunNext == GetHash \/ HashResponse \/ RuleResponse \/ Restart

RerunSpec == UpdateInit /\ [][RerunNext]_vars

\* ------------------------------------------ interception during an update

\* The rule-sets an earlier run can have cached, with their hash.
LiveCached ==
    {[doc |-> d, hash |-> <<"hA">>] : d \in {RuleSetB, RuleSetE, RuleSetF}}

\* The state when start() has returned: the registry is empty, the hash
\* fetch is in flight and the listener is registered; the host is about to
\* dispatch a request.
LiveInit ==
    \E cached \in LiveCached, req \in RequestURLs, type \in {"main_frame", "image"} :
        /\ storage = [StorageOf(cached.doc, TRUE, FALSE, TRUE, FALSE, TRUE, TRUE, MaxLog)
                         EXCEPT !.dataHash = cached.hash]
        /\ providers = <<>>
        /\ prvKeys = <<>>
        /\ dataHash = <<>>
        /\ localDataHash = cached.hash
        /\ request = [url |-> req, type |-> type]
        /\ action = NoOutcome.action
        /\ trace = NoOutcome
        /\ net = [IdleNet EXCEPT !.pc = "hash_pending", !.hashFetches = 1]
        /\ phase = "ready"

LiveNext == HashResponse \/ RuleResponse \/ Intercept \/ Redispatch

LiveSpec == LiveInit /\ [][LiveNext]_vars

\* ---------------------------------------------------- rules of a provider

Kinds == {"rules", "rawRules", "referralMarketing", "exceptions", "redirections"}

\* The texts the add operations are called with, per kind.
AddedTexts(kind) ==
    CASE kind = "rules" -> {<<"s">>, <<"t">>}
      [] kind = "rawRules" -> {<<"s", "t">>}
      [] kind = "referralMarketing" -> {<<"t">>}
      [] kind = "exceptions" -> {<<"/", "e">>}
      [] kind = "redirections" -> {<<"r", "=">>}

\* The argument an add operation of the kind gets for a text.
ArgOf(kind, text) ==
    CASE kind \in {"rules", "referralMarketing"} -> text
      [] kind = "redirections" -> Redir(text)
      [] OTHER -> Lit(text)

\* The pattern text an add operation of the kind stores for a text.
StoredAs(kind, text) ==
    CASE kind = "rules" -> [kind |-> "field", s |-> text]
      [] kind = "referralMarketing" -> [kind |-> "ref", s |-> text]
      [] OTHER -> ArgOf(kind, text)

Add(prov, kind, text, isActive) ==
    CASE kind = "rules" -> addRule(prov, ArgOf(kind, text), isActive)
      [] kind = "rawRules" -> addRawRule(prov, ArgOf(kind, text), isActive)
      [] kind = "referralMarketing" -> addReferralMarketing(prov, ArgOf(kind, text), isActive)
      [] kind = "exceptions" -> addException(prov, ArgOf(kind, text), isActive)
      [] kind = "redirections" -> addRedirection(prov, ArgOf(kind, text), isActive)

EnabledOf(prov, kind) ==
    CASE kind = "rules" -> prov.enabled_rules
      [] kind = "rawRules" -> prov.enabled_rawRules
      [] kind = "referralMarketing" -> prov.enabled_referralMarketing
      [] kind = "exceptions" -> prov.enabled_exceptions
      [] kind = "redirections" -> prov.enabled_redirections

DisabledOf(prov, kind) ==
    CASE kind = "rules" -> prov.disabled_rules
      [] kind = "rawRules" -> prov.disabled_rawRules
      [] kind = "referralMarketing" -> prov.disabled_referralMarketing
      [] kind = "exceptions" -> prov.disabled_exceptions
      [] kind = "redirections" -> prov.disabled_redirections

KindTexts == {<<kind, text>> : kind \in Kinds, text \in {<<"s">>, <<"t">>, <<"s", "t">>, <<"/", "e">>, <<"r", "=">>}}

\* One provider as createProviders built it; trace.last holds, per kind and
\* text, the isActive of the most recent add ("on", "off", or "none"),
\* trace.returned what the last call of getRules returned and trace.fresh
\* whether that call was the last operation.
RulesInit ==
    \E data \in {RuleSetA, RuleSetB}, rm \in BOOLEAN :
        /\ storage = StorageOf(data, TRUE, FALSE, TRUE, TRUE, rm, TRUE, MaxLog)
        /\ providers = <<toObject(<<>>, <<>>, data).providers[1]>>
        /\ prvKeys = <<data[1].name>>
        /\ dataHash = <<"hA">>
        /\ localDataHash = <<"hA">>
        /\ request = [url |-> <<"v">>, type |-> "main_frame"]
        /\ action = NoOutcome.action
        /\ trace = [last |-> [kt \in KindTexts |->
                                IF StoredAs(kt[1], kt[2]) \in
                                     Range(EnabledOf(toObject(<<>>, <<>>, data).providers[1],
                                                     kt[1]))
                                THEN "on" ELSE "none"],
                     returned |-> <<>>,
                     fresh |-> FALSE]
        /\ net = IdleNet
        /\ phase = "rules"

\* A caller adds a rule of some kind, enabled or disabled.
AddOp ==
    /\ phase = "rules"
    /\ \E kind \in Kinds, isActive \in BOOLEAN :
         \E text \in AddedTexts(kind) :
            /\ providers' = <<Add(providers[1], kind, text, isActive)>>
            /\ trace' = [trace EXCEPT !.last[<<kind, text>>] =
                                          IF isActive THEN "on" ELSE "off",
                                      !.fresh = FALSE]
    /\ UNCHANGED <<prvKeys, storage, dataHash, localDataHash, request, action, net, phase>>

\* A caller asks for the active rules.
GetRulesOp ==
    /\ phase = "rules"
    /\ LET got == getRules(providers[1])
       IN  /\ providers' = <<got.prov>>
           /\ trace' = [trace EXCEPT !.returned = got.rules, !.fresh = TRUE]
    /\ UNCHANGED <<prvKeys, storage, dataHash, localDataHash, request, action, net, phase>>

\* The user switches the referral-marketing setting.
SetReferralMarketing ==
    /\ phase = "rules"
    /\ storage' = [storage EXCEPT !.referralMarketing = ~@]
    /\ trace' = [trace EXCEPT !.fresh = FALSE]
    /\ UNCHANGED <<providers, prvKeys, dataHash, localDataHash, request, action, net,
                   phase>>

RulesNext == AddOp \/ GetRulesOp \/ SetReferralMarketing

RulesSpec == RulesInit /\ [][RulesNext]_vars

\* ---------------------------------------------------------- the log alone

\* The values of storage.logLimit: a negative limit stands for no limit.
LogLimits == {-1} \cup (0..MaxLog)

\* The entries callers log.
LogCalls ==
    {LogCall(<<"v", "?", "s", "=", "2">>, <<"v">>, [kind |-> "field", s |-> <<"s">>]),
     LogCall(<<"v", "/", "t">>, <<"v">>, Lit(<<"/", "t">>)),
     LogCall(<<"v">>, <<"v">>, translate("log_ping_blocked"))}

\* An empty log under some logging setting and some limit; trace holds the
\* log before the last call of pushToLog and the entry of that call.
LogInit ==
    \E lg \in BOOLEAN, limit \in LogLimits :
        /\ storage = StorageOf(RuleSetA, TRUE, FALSE, TRUE, FALSE, FALSE, lg, limit)
        /\ providers = <<>>
        /\ prvKeys = <<>>
        /\ dataHash = <<"hA">>
        /\ localDataHash = <<"hA">>
        /\ request = [url |-> <<"v">>, type |-> "main_frame"]
        /\ action = NoOutcome.action
        /\ trace = [prev |-> <<>>, call |-> LogCall(<<>>, <<>>, Lit(<<>>))]
        /\ net = IdleNet
        /\ phase = "log"

\* pushToLog(beforeProcessing, afterProcessing, rule).  Without a limit the
\* log grows with every call; the model stops calling at MaxLog + 2 entries.
PushToLog ==
    /\ phase \in {"log", "pushed"}
    /\ Len(storage.log) < MaxLog + 2
    /\ \E call \in LogCalls :
          /\ storage' = [storage EXCEPT !.log = pushToLog(@, call)]
          /\ trace' = [prev |-> storage.log, call |-> call]
    /\ phase' = "pushed"
    /\ UNCHANGED <<providers, prvKeys, dataHash, localDataHash, request, action, net>>

\* The user sets another log limit.
SetLogLimit ==
    /\ phase \in {"log", "pushed"}
    /\ \E limit \in LogLimits \ {storage.logLimit} :
          storage' = [storage EXCEPT !.logLimit = limit]
    /\ phase' = "log"
    /\ UNCHANGED <<providers, prvKeys, dataHash, localDataHash, request, action, trace,
                   net>>

\* The user switches logging on or off.
SetLoggingStatus ==
    /\ phase \in {"log", "pushed"}
    /\ storage' = [storage EXCEPT !.loggingStatus = ~@]
    /\ phase' = "log"
    /\ UNCHANGED <<providers, prvKeys, dataHash, localDataHash, request, action, trace,
                   net>>

LogNext == PushToLog \/ SetLogLimit \/ SetLoggingStatus

LogSpec == LogInit /\ [][LogNext]_vars

\* ------------------------------------------------------ the badge counters

\* The ids of the browser's tabs; tabid is 0 until a tab is activated.
TabIds == 1..MaxTabs

\* A value of badges[tab]: no entry, a number, or NaN.
Absent == [kind |-> "absent", n |-> 0]
NaN == [kind |-> "NaN", n |-> 0]
Num(n) == [kind |-> "number", n |-> n]

\* badges[tab] == null
IsNull(badge) == badge.kind = "absent"

\* ++badges[tab]: undefined and NaN become NaN.
Incremented(badge) == IF badge.kind = "number" THEN Num(badge.n + 1) ELSE NaN

\* No badge entry, tabid = 0, no platform check pending.  trace holds the
\* badges array, tabid, the queue of pending callbacks of checkOSAndroid
\* (the quiet flag of the call each belongs to), whether the platform is
\* Android, and per tab the non-quiet increments applied since the entry
\* was last created or deleted.
BadgeInit ==
    \E status, android \in BOOLEAN :
        /\ storage = [badgedStatus |-> status]
                       @@ StorageOf(RuleSetA, TRUE, FALSE, TRUE, FALSE, FALSE, TRUE, MaxLog)
        /\ providers = <<>>
        /\ prvKeys = <<>>
        /\ dataHash = <<"hA">>
        /\ localDataHash = <<"hA">>
        /\ request = [url |-> <<"v">>, type |-> "main_frame"]
        /\ action = NoOutcome.action
        /\ trace = [badges |-> [t \in 0..MaxTabs |-> Absent],
                    tabid |-> 0,
                    pending |-> <<>>,
                    android |-> android,
                    applied |-> [t \in 0..MaxTabs |-> 0],
                    calls |-> 0]
        /\ net = IdleNet
        /\ phase = "badge"

\* increaseBadged(quiet), the part that runs in the caller's turn: the entry
\* of the active tab is created when it is null, and the platform check is
\* started.
IncreaseBadged ==
    /\ phase = "badge"
    /\ Len(trace.pending) < MaxPending
    /\ trace.calls < MaxBadge
    /\ \E quiet \in BOOLEAN :
          trace' = [trace EXCEPT
                       !.badges[trace.tabid] = IF IsNull(@) THEN Num(0) ELSE @,
                       !.applied[trace.tabid] =
                           IF IsNull(trace.badges[trace.tabid]) THEN 0 ELSE @,
                       !.pending = Append(@, quiet),
                       !.calls = @ + 1]
    /\ UNCHANGED <<providers, prvKeys, storage, dataHash, localDataHash, request,
                   action, net, phase>>

\* The callback of checkOSAndroid() of the oldest pending call: off Android,
\* with the badge enabled and a call that is not quiet, the entry of the tab
\* that is active now is incremented.
BadgeCallback ==
    /\ phase = "badge"
    /\ trace.pending # <<>>
    /\ LET quiet == Head(trace.pending)
           counts == ~trace.android /\ storage.badgedStatus /\ ~quiet
       IN  trace' = [trace EXCEPT
                        !.pending = Tail(@),
                        !.badges[trace.tabid] = IF counts THEN Incremented(@) ELSE @,
                        !.applied[trace.tabid] = IF counts THEN @ + 1 ELSE @]
    /\ UNCHANGED <<providers, prvKeys, storage, dataHash, localDataHash, request,
                   action, net, phase>>

\* handleUpdated(tabId, changeInfo, tabInfo): the entry of a tab whose URL
\* changed is deleted.
HandleUpdated ==
    /\ phase = "badge"
    /\ \E tabId \in TabIds, urlChanged \in BOOLEAN :
          trace' = IF urlChanged
                   THEN [trace EXCEPT !.badges[tabId] = Absent, !.applied[tabId] = 0]
                   ELSE trace
    /\ UNCHANGED <<providers, prvKeys, storage, dataHash, localDataHash, request,
                   action, net, phase>>

\* handleActivated(activeInfo): tabid becomes the id of the activated tab.
HandleActivated ==
    /\ phase = "badge"
    /\ \E tabId \in TabIds : trace' = [trace EXCEPT !.tabid = tabId]
    /\ UNCHANGED <<providers, prvKeys, storage, dataHash, localDataHash, request,
                   action, net, phase>>

BadgeNext == IncreaseBadged \/ BadgeCallback \/ HandleUpdated \/ HandleActivated

BadgeSpec == BadgeInit /\ [][BadgeNext]_vars

\* ================================================================ properties

\* The request just answered was examined by the provider loop: the extension
\* is enabled, the request is no data URL and ping blocking did not take it.
ReachedProviders ==
    /\ phase = "answered"
    /\ storage.globalStatus
    /\ ~isDataURL(request)
    /\ ~(storage.pingBlocking /\ request.type \in storage.pingRequestTypes)

\* The URL pattern of provider i matches the URL.
PatternHits(i, url) == RegexTest(url, providers[i].urlPattern)

\* An enabled exception of provider i matches the URL.
EnabledExceptionHits(i, url) ==
    \E k \in 1..Len(providers[i].enabled_exceptions) :
        RegexTest(url, providers[i].enabled_exceptions[k])

\* A disabled exception of provider i matches the URL.
DisabledExceptionHits(i, url) ==
    \E k \in 1..Len(providers[i].disabled_exceptions) :
        RegexTest(url, providers[i].disabled_exceptions[k])

\* C1: when the extension is enabled, ping blocking does not apply and no
\* provider matches the request URL, the dispatcher answers pass-through and
\* updates no tab; a redirect or cancel answer is always the act of a provider
\* whose engine ran on this request, and the engine ran only for providers
\* that match the URL, so no result left over from elsewhere acts.
C1_NoMatchPasses ==
    ReachedProviders =>
        /\ (\A i \in 1..Len(providers) : ~matchURL(providers[i], request.url))
               => /\ action = Pass
                  /\ trace.tab = NoTab
                  /\ trace.ran = {}
        /\ action.kind \in {"redirect", "cancel"} => trace.by \in trace.ran
        /\ \A i \in trace.ran : matchURL(providers[i], request.url)

\* C1 witness: a request with removable fields was answered by a registry of
\* two providers none of which matches its URL.
C1_Witness ==
    /\ ReachedProviders
    /\ Len(providers) = 2
    /\ existsFields(request.url)
    /\ \A i \in 1..Len(providers) : ~matchURL(providers[i], request.url)
    /\ action = Pass

\* C2: a provider whose URL pattern matches the request URL while one of its
\* enabled exceptions matches too does not match: its engine does not run and
\* it is not the provider that answers; when no engine runs nothing is logged,
\* no badge is counted and the answer is pass-through.  An exception that was
\* disabled suppresses nothing: a provider whose pattern matches and none of
\* whose enabled exceptions matches does match, and its engine runs unless an
\* earlier provider already answered.
C2_ExceptionWins ==
    ReachedProviders =>
        /\ \A i \in 1..Len(providers) :
              /\ (PatternHits(i, request.url) /\ EnabledExceptionHits(i, request.url))
                     => /\ ~matchURL(providers[i], request.url)
                        /\ i \notin trace.ran
                        /\ trace.by # i
              /\ (/\ PatternHits(i, request.url)
                  /\ ~EnabledExceptionHits(i, request.url)
                  /\ request.url # siteBlockedAlert)
                     => /\ matchURL(providers[i], request.url)
                        /\ (i \in trace.ran \/ trace.by \in 1..(i - 1))
        /\ trace.ran = {} => /\ action = Pass
                             /\ trace.logs = <<>>
                             /\ trace.badge = 0

\* C2 witness: a URL with removable fields was answered while an enabled
\* exception kept a provider with a matching pattern from running, and
\* another provider, whose matching exception had been disabled, ran.
C2_Witness ==
    /\ ReachedProviders
    /\ existsFields(request.url)
    /\ \E i, j \in 1..Len(providers) :
          /\ PatternHits(i, request.url)
          /\ EnabledExceptionHits(i, request.url)
          /\ i \notin trace.ran
          /\ PatternHits(j, request.url)
          /\ DisabledExceptionHits(j, request.url)
          /\ j \in trace.ran

\* C3: siteBlockedAlert matches no provider, whatever exceptions were added
\* or disabled; a request for it that is dispatched again is answered
\* pass-through with no engine run and nothing logged.
C3_SentinelExempt ==
    /\ \A i \in 1..Len(providers) : ~matchURL(providers[i], siteBlockedAlert)
    /\ (ReachedProviders /\ request.url = siteBlockedAlert)
           => /\ action = Pass
              /\ trace.ran = {}
              /\ trace.logs = <<>>

\* C3 witness: a blocked non-main-frame request was redirected to
\* siteBlockedAlert, the redirect was dispatched again and answered, with a
\* provider whose URL pattern matches siteBlockedAlert and after an exception
\* was disabled.
C3_Witness ==
    /\ ReachedProviders
    /\ request.url = siteBlockedAlert
    /\ request.type # "main_frame"
    /\ \E i \in 1..Len(providers) :
          /\ PatternHits(i, siteBlockedAlert)
          /\ ~EnabledExceptionHits(i, siteBlockedAlert)
    /\ \E j \in 1..Len(providers) : providers[j].disabled_exceptions # <<>>

\* The URL after each raw rule, in order, removed all its matches.
RECURSIVE RawCleaned(_, _)
RawCleaned(rawRules, url) ==
    IF Len(rawRules) = 0 THEN url
    ELSE RawCleaned(Tail(rawRules), RegexRemoveAll(url, rawRules[1]))

\* An enabled redirection of the provider matches the text.
RedirectionHits(prov, text) ==
    \E k \in 1..Len(prov.enabled_redirections) :
        RegexTest(text, prov.enabled_redirections[k])

\* The first capture of the first enabled redirection that matches the text.
RedirectionCapture(prov, text) ==
    LET k == CHOOSE k \in 1..Len(prov.enabled_redirections) :
                 /\ RegexTest(text, prov.enabled_redirections[k])
                 /\ \A j \in 1..(k - 1) : ~RegexTest(text, prov.enabled_redirections[j])
    IN  RegexGroup1(text, prov.enabled_redirections[k])

\* C4 (amended): for a non-local URL whose text, after the raw rules were
\* applied, is matched by an enabled redirection of the provider, the call of
\* removeFieldsFormURL runs neither the field and fragment pass nor the
\* domain-block check and reports no cancel; it throws exactly when the
\* captured target cannot be decoded, and otherwise returns the redirect
\* result carrying the decoded first capture of the first matching enabled
\* redirection, also when the URL has removable fields and the provider is a
\* complete provider with domain blocking enabled.
C4_RedirectionFirst ==
    LET prov == providers[1]
        rawUrl == RawCleaned(prov.enabled_rawRules, request.url)
        res == trace.first
    IN  (/\ phase = "applied"
         /\ ~checkLocalURL(request.url)
         /\ RedirectionHits(prov, rawUrl))
            => /\ "fields" \notin res.steps
               /\ "block" \notin res.steps
               /\ ~res.cancel
               /\ res.threw <=> ~DecodeOk(RedirectionCapture(prov, rawUrl), 1)
               /\ ~res.threw
                      => /\ res.redirect
                         /\ res.url = decodeURL(RedirectionCapture(prov, rawUrl))

\* C4 witness: a complete provider with domain blocking enabled was applied to
\* a non-local URL that has fields and that a redirection matches; the call
\* returned the redirect result.
C4_Witness ==
    /\ phase = "applied"
    /\ ~checkLocalURL(request.url)
    /\ existsFields(request.url)
    /\ isCaneling(providers[1])
    /\ storage.domainBlocking
    /\ RedirectionHits(providers[1], RawCleaned(providers[1].enabled_rawRules, request.url))
    /\ trace.first.redirect
    /\ trace.first.url # <<>>

\* C4 as stated, the redirection matched against the URL the call received:
\* for a non-local URL that an enabled redirection matches, a call that
\* returns gives the redirect result with the decoded captured target and
\* has run neither the field and fragment pass nor the domain-block check.
C4_AsStated ==
    LET prov == providers[1]
        res == trace.first
    IN  (/\ phase = "applied"
         /\ ~checkLocalURL(request.url)
         /\ RedirectionHits(prov, request.url)
         /\ ~res.threw)
            => /\ res.redirect
               /\ res.url = decodeURL(RedirectionCapture(prov, request.url))
               /\ "fields" \notin res.steps
               /\ "block" \notin res.steps

\* C5 as stated: when removeFieldsFormURL was applied to a URL and returned
\* no redirect, applying it under the same settings to the URL it returned
\* reports no change and returns that URL.
C5_Idempotent ==
    phase = "reapplied"
        => /\ ~trace.second.threw
           /\ ~trace.second.redirect
           /\ ~trace.second.changes
           /\ trace.second.url = trace.first.url

\* C6 as stated, under fair dispatch: every chain of dispatches reaches an
\* answer that is no redirect.
C6_Converges == <>(phase = "answered" /\ action.kind # "redirect")

\* The registry toObject builds from the rule-set cached in storage.
CachedRegistry == toObject(<<>>, <<>>, storage.ClearURLsData.doc).providers

\* C7: in one run of the update pipeline the rule-set is requested at most
\* once and never before the hash response was received; when the hash
\* response is usable and the trimmed remote hash equals the trimmed cached
\* hash, the rule-set is not requested, the registry is built from the cached
\* rule-set and the status is up_to_date; when it is usable and the trimmed
\* hashes differ, the rule-set is requested exactly once.
C7_DownloadCount ==
    LET r == net.hashResp
        same == Trim(r.body) = Trim(localDataHash)
    IN  /\ net.hashFetches <= 1
        /\ net.ruleFetches <= 1
        /\ net.ruleFetches > 0 => r.kind = "response"
        /\ (Usable(r) /\ same)
               => /\ net.ruleFetches = 0
                  /\ providers = CachedRegistry
                  /\ providers # <<>>
                  /\ storage.hashStatus = "up_to_date"
        /\ (Usable(r) /\ ~same) => net.ruleFetches = 1

\* C7 witness: the run ended without a download on a remote hash that equals
\* the cached one only after trimming.
C7_Witness ==
    /\ net.pc = "done"
    /\ Usable(net.hashResp)
    /\ net.hashResp.body # localDataHash
    /\ Trim(net.hashResp.body) = Trim(localDataHash)
    /\ net.ruleFetches = 0
    /\ storage.hashStatus = "up_to_date"

\* C8: when a non-empty rule-set body was downloaded successfully and its
\* content hash differs, after trimming, from the hash the hash phase
\* obtained, the status is hash_mismatch, not updated.
C8_MismatchFlagged ==
    LET r == net.ruleResp
    IN  (Usable(r) /\ Trim(sha256(r.body)) # Trim(dataHash))
            => /\ storage.hashStatus = "hash_mismatch"
               /\ storage.hashStatus # "updated"

\* C8 witness: the run ended on a downloaded body whose digest is not the
\* advertised hash.
C8_Witness ==
    /\ net.pc = "done"
    /\ net.ruleFetches = 1
    /\ Usable(net.ruleResp)
    /\ Trim(sha256(net.ruleResp.body)) # Trim(dataHash)
    /\ storage.hashStatus = "hash_mismatch"

\* C9 as stated: when the hash fetch or the rule-set fetch failed, was not ok
\* or brought an empty body, the run ends with status unavailable and with
\* the registry built from the cached rule-set, and after a failed hash fetch
\* no rule-set is requested.
C9_FailureDegrades ==
    (/\ net.pc = "done"
     /\ \/ ~Usable(net.hashResp)
        \/ net.ruleFetches = 1 /\ ~Usable(net.ruleResp))
        => /\ storage.hashStatus = "unavailable"
           /\ providers = CachedRegistry
           /\ ~Usable(net.hashResp) => net.ruleFetches = 0

\* C10: for every kind of rule no pattern is in both the enabled and the
\* disabled collection of the kind; a pattern whose most recent add was
\* active is in the enabled and not in the disabled collection, one whose
\* most recent add was inactive is in the disabled and not in the enabled
\* collection; and getRules() does not return a field rule whose most recent
\* add was inactive.
C10_EnabledDisabledDisjoint ==
    phase = "rules" =>
        /\ \A kind \in Kinds :
              Range(EnabledOf(providers[1], kind))
                  \cap Range(DisabledOf(providers[1], kind)) = {}
        /\ \A kt \in KindTexts :
              LET stored == StoredAs(kt[1], kt[2])
                  on == stored \in Range(EnabledOf(providers[1], kt[1]))
                  off == stored \in Range(DisabledOf(providers[1], kt[1]))
              IN  /\ trace.last[kt] = "on" => on /\ ~off
                  /\ trace.last[kt] = "off" => off /\ ~on
                  /\ trace.last[kt] = "none" => ~on /\ ~off
        /\ \A text \in AddedTexts("rules") :
              trace.last[<<"rules", text>>] = "off"
                  => StoredAs("rules", text) \notin Range(getRules(providers[1]).rules)

\* C10 witness: a field rule that createProviders added as active was added
\* again as inactive, an exception was moved to the disabled collection too,
\* and getRules() then returned rules without that field rule.
C10_Witness ==
    /\ phase = "rules"
    /\ trace.last[<<"rules", <<"s">>>>] = "off"
    /\ StoredAs("rules", <<"s">>) \in Range(providers[1].disabled_rules)
    /\ trace.last[<<"exceptions", <<"/", "e">>>>] = "off"
    /\ trace.returned # <<>>
    /\ StoredAs("rules", <<"s">>) \notin Range(trace.returned)

\* The last n entries of a log.
LastOf(log, n) == SubSeq(log, Len(log) - n + 1, Len(log))

\* C11 (amended): a call of pushToLog made with logging enabled and a
\* positive limit leaves at most limit entries, also when the limit was
\* lowered since the call before: the log afterwards is the newest entries of
\* the log before, as many as fit under the limit with the new entry, in
\* their order, followed by the new entry.  With a negative limit nothing is
\* evicted and the entry is appended.  With logging disabled or limit 0 the
\* log is left unchanged, whatever its length.
C11_LogBounded ==
    phase = "pushed" =>
        LET limit == storage.logLimit
            kept == IF limit > 0 /\ Len(trace.prev) > limit - 1
                    THEN limit - 1 ELSE Len(trace.prev)
        IN  IF storage.loggingStatus /\ limit # 0
            THEN /\ storage.log = Append(LastOf(trace.prev, kept), trace.call)
                 /\ limit > 0 => Len(storage.log) <= limit
            ELSE storage.log = trace.prev

\* C11 witness: pushToLog was called with logging on and a positive limit
\* that had been lowered below the length of the log; the call evicted more
\* than one entry and left the log at the limit.
C11_Witness ==
    /\ phase = "pushed"
    /\ storage.loggingStatus
    /\ storage.logLimit > 0
    /\ Len(trace.prev) > storage.logLimit
    /\ Len(storage.log) = storage.logLimit
    /\ storage.log[Len(storage.log)] = trace.call

\* C11 as stated, for the limits that are a capacity: after every call of
\* pushToLog the log holds no more entries than the configured limit.
C11_AsStated ==
    (phase = "pushed" /\ storage.logLimit >= 0) => Len(storage.log) <= storage.logLimit

\* The patterns of a kind whose most recent add was active.
LastEnabled(kind) ==
    {StoredAs(kind, text) : text \in {t \in AddedTexts(kind) : trace.last[<<kind, t>>] = "on"}}

\* The enabled field rules of the provider: the field rules last added as
\* active and, for a complete provider, the rule its constructor sets.
EnabledFieldRules ==
    LastEnabled("rules")
        \cup (IF isCaneling(providers[1]) THEN {[kind |-> "any", s |-> <<>>]} ELSE {})

\* C12 as stated: what getRules() returned is exactly the enabled field rules
\* when referral-marketing enforcement is on, and the enabled field rules
\* with the currently enabled referral-marketing rules when it is off,
\* whatever calls and switches of the setting came before.
C12_GetRulesBySetting ==
    (phase = "rules" /\ trace.fresh) =>
        Range(trace.returned) =
            IF storage.referralMarketing
            THEN EnabledFieldRules
            ELSE EnabledFieldRules \cup LastEnabled("referralMarketing")

\* C13 as stated: no request is answered by an exception; every invocation
\* of clearUrl returns an action.
C13_NeverThrows ==
    phase = "answered" => action.kind \in {"pass", "cancel", "redirect"}

\* The value checkResponse hands to JSON.parse: the downloaded text when its
\* hash is the advertised one, the cached rule-set otherwise.
ToBeLoaded(resp) ==
    IF HashVerified(sha256(resp.body), dataHash)
    THEN Txt(resp.body)
    ELSE storage.ClearURLsData

\* The texts of this model that are JSON.
ValidTexts == {TextA, TextB}

\* C14: when the value checkResponse is about to load is no valid JSON (a
\* downloaded text outside the JSON texts, or the cached document object that
\* JSON.parse converts to a string first), the step of checkResponse leaves
\* the provider registry and its key list exactly as they were.
C14_InvalidJSONKeepsRegistry ==
    [][(/\ net.pc = "rules_pending"
        /\ net'.pc = "done"
        /\ Usable(net'.ruleResp)
        /\ LET v == ToBeLoaded(net'.ruleResp)
           IN  v.form # "text" \/ Trim(v.text) \notin ValidTexts)
       => (providers' = providers /\ prvKeys' = prvKeys)]_vars

\* A verified download of a text that is no JSON has been handled: the load
\* attempt threw and the registry is the one from before the attempt.
C14_Witness ==
    /\ net.pc = "done"
    /\ net.ruleFetches = 1
    /\ Usable(net.ruleResp)
    /\ net.ruleResp.body = TextBad
    /\ HashVerified(sha256(net.ruleResp.body), dataHash)
    /\ net.threw
    /\ providers = <<>>
    /\ prvKeys = <<>>

\* A provider without the rules, exceptions and redirections that are no
\* regular expression.
WithoutUncompilable(prov) ==
    [prov EXCEPT !.enabled_rules = SelectSeq(@, Compiles),
                 !.enabled_rawRules = SelectSeq(@, Compiles),
                 !.enabled_referralMarketing = SelectSeq(@, Compiles),
                 !.enabled_exceptions = SelectSeq(@, Compiles),
                 !.enabled_redirections = SelectSeq(@, Compiles)]

\* The registry a build that skips what does not compile makes of a
\* rule-set document: one provider per entry whose URL pattern compiles,
\* in document order, configured with the entry's compiling items.
RECURSIVE SkippingRegistry(_, _)
SkippingRegistry(data, i) ==
    IF i > Len(data) THEN <<>>
    ELSE LET entry == data[i]
             rest == SkippingRegistry(data, i + 1)
         IN  IF Compiles(getOrDefault(entry, "urlPattern", Lit(<<>>)))
             THEN <<WithoutUncompilable(ConfigureProvider(
                        Provider(entry.name,
                                 getOrDefault(entry, "completeProvider", FALSE),
                                 getOrDefault(entry, "forceRedirection", FALSE)),
                        entry))>> \o rest
             ELSE rest

\* C15: once the registry build has run on the stored rule-set document, the
\* registry holds, in document order and fully configured, a provider for
\* every entry whose URL pattern compiles, without the rules that do not
\* compile, and nothing else: no provider is missing because an earlier one
\* had a bad pattern, and none is left without a URL pattern.
C15_BadPatternSkipped ==
    prvKeys # <<>> => providers = SkippingRegistry(storage.ClearURLsData.doc, 1)

\* The registry a build that runs to its end makes of a rule-set document.
CompleteRegistry(data) ==
    [i \in 1..Len(data) |->
        ConfigureProvider(Provider(data[i].name,
                                   getOrDefault(data[i], "completeProvider", FALSE),
                                   getOrDefault(data[i], "forceRedirection", FALSE)),
                          data[i])]

\* C16: whenever clearUrl has answered a request, interleaved in any order
\* with the callbacks of the update pipeline, the registry it iterated is
\* the complete registry before the build (the empty one) or the complete
\* registry after it (every provider of the stored document, each with its
\* URL pattern and rule collections set): never a part of the new providers,
\* never a provider that is not yet configured.
C16_NoTornRegistry ==
    phase = "answered" =>
        \/ providers = <<>>
        \/ providers = CompleteRegistry(storage.ClearURLsData.doc)

\* The query tokens of a URL.
QueryTokens(url) == rmEmpty(extractFileds(url))

\* The URL is a base followed by one query of name=value tokens: one "?",
\* no fragment, no separator inside the query other than "&".
PlainQuery(url) ==
    /\ existsFields(url)
    /\ \A i \in 1..Len(url) : url[i] # "#"
    /\ \A i \in (FirstIn(url, {"?"}, 1) + 1)..Len(url) : url[i] \notin {"/", "?"}
    /\ QueryTokens(url) # <<>>

\* The token's name is the name of one of the rules.
Named(tok, rules) ==
    \E i \in 1..Len(rules) :
        /\ rules[i].kind \in {"field", "ref"}
        /\ OccursAt(tok, rules[i].s \o <<"=">>, 1)

\* The tokens no rule names, in their order.
KeptTokens(url, rules) == SelectSeq(QueryTokens(url), LAMBDA tok : ~Named(tok, rules))

\* The case of C17 for the provider and URL of the engine: a non-local URL
\* with a plain query, field rules only, no raw rule and no redirection
\* matching, some token named by a rule and some token named by none.
C17_Case ==
    /\ PlainQuery(request.url)
    /\ ~(storage.localHostsSkipping /\ checkLocalURL(request.url))
    /\ \A i \in 1..Len(providers[1].enabled_rules) :
           providers[1].enabled_rules[i].kind \in {"field", "ref"}
    /\ \A i \in 1..Len(providers[1].enabled_rawRules) :
           RegexRemoveAll(request.url, providers[1].enabled_rawRules[i]) = request.url
    /\ ~getRedirection(providers[1], request.url).found
    /\ KeptTokens(request.url, providers[1].enabled_rules) # <<>>
    /\ KeptTokens(request.url, providers[1].enabled_rules) # QueryTokens(request.url)

\* C17: for a provider with field rules and a non-local URL base?tokens in
\* which some token is named by a rule and some token is not (no raw rule
\* or redirection matching), removeFieldsFormURL returns changes = true and
\* the URL base?kept, where kept are the tokens no rule names, in their
\* original order and joined by "&": the named tokens are gone, the base is
\* unchanged and no "?&" is left.
C17_FieldRemoved ==
    (phase = "applied" /\ C17_Case) =>
        /\ ~trace.first.threw
        /\ trace.first.changes
        /\ ~trace.first.redirect
        /\ trace.first.url = CutAt(request.url, "?") \o <<"?">>
                              \o Join(KeptTokens(request.url, providers[1].enabled_rules))
        /\ FindFrom(trace.first.url, <<"?", "&">>, 1) = 0

\* The engine has cleaned a URL whose first token is named by a rule and
\* whose second token is kept.
C17_Witness ==
    /\ phase = "applied"
    /\ C17_Case
    /\ Len(QueryTokens(request.url)) = 2
    /\ Named(QueryTokens(request.url)[1], providers[1].enabled_rules)
    /\ ~Named(QueryTokens(request.url)[2], providers[1].enabled_rules)
    /\ trace.first.url = CutAt(request.url, "?") \o <<"?">> \o QueryTokens(request.url)[2]

\* The rule-set download ended on a usable body whose digest is not the
\* advertised hash.
MismatchEnded ==
    /\ net.pc = "done"
    /\ net.ruleFetches = 1
    /\ Usable(net.ruleResp)
    /\ Trim(sha256(net.ruleResp.body)) # Trim(dataHash)

\* C18 as amended: after the mismatch branch the downloaded document is not
\* adopted.  The in-memory rule-set is still the cached document, the one
\* stored with the cached hash; JSON.parse on that document object throws,
\* so the registry is left as it was before the download (empty), nothing
\* is saved, and the status is hash_mismatch.
C18_MismatchKeepsCached ==
    MismatchEnded =>
        /\ \E c \in Cached : /\ c.hash = storage.dataHash
                             /\ storage.ClearURLsData = Obj(c.doc)
        /\ storage.dataHash = localDataHash
        /\ net.threw
        /\ net.saved = {}
        /\ providers = <<>>
        /\ prvKeys = <<>>
        /\ storage.hashStatus = "hash_mismatch"

\* A parseable rule-set text was downloaded under another advertised hash
\* and differs from the cached rule-set, which is still the one in memory.
C18_Witness ==
    /\ MismatchEnded
    /\ Trim(net.ruleResp.body) \in ValidTexts
    /\ storage.ClearURLsData # JSONparse(Txt(net.ruleResp.body))
    /\ storage.ClearURLsData.form = "object"
    /\ providers = <<>>

\* C18 as stated: after the mismatch branch on a parseable download, the
\* in-memory rule-set and the registry are those of the downloaded body.
C18_AsStated ==
    (MismatchEnded /\ Trim(net.ruleResp.body) \in ValidTexts) =>
        /\ storage.ClearURLsData = JSONparse(Txt(net.ruleResp.body))
        /\ providers = CompleteRegistry(JSONparse(Txt(net.ruleResp.body)).doc)

\* The rule-set download ended on a usable body whose digest is, after
\* trimming, the hash the hash phase obtained.
VerifiedEnded ==
    /\ net.pc = "done"
    /\ net.ruleFetches = 1
    /\ Usable(net.ruleResp)
    /\ Trim(sha256(net.ruleResp.body)) = Trim(dataHash)

\* A step replaces the stored rule-set or the stored hash only if it is the
\* step of checkResponse on a body whose digest is the advertised hash.
ReplacedOnlyWhenVerified ==
    (storage'.ClearURLsData # storage.ClearURLsData \/ storage'.dataHash # storage.dataHash)
        => /\ net.pc = "rules_pending"
           /\ Usable(net'.ruleResp)
           /\ Trim(sha256(net'.ruleResp.body)) = Trim(dataHash)

PingAnswered ==
    /\ phase = "answered"
    /\ storage.globalStatus
    /\ storage.pingBlocking
    /\ request.type \in storage.pingRequestTypes

\* What C20 promises for the answered request: the answer is {cancel: true},
\* no provider was consulted and no engine ran, the registry is as it was
\* built, the badge was increased once, and pushToLog was called once, with
\* the request URL as before and after and the ping-blocked message, which
\* with logging on is the one entry of the log.
PingBlocked ==
    /\ action = Cancel
    /\ trace.ran = {}
    /\ trace.by = 0
    /\ trace.tab = NoTab
    /\ providers = toObject(<<>>, <<>>, storage.ClearURLsData.doc).providers
    /\ trace.badge = 1
    /\ trace.logs = <<LogCall(request.url, request.url, translate("log_ping_blocked"))>>
    /\ storage.log = IF storage.loggingStatus THEN trace.logs ELSE <<>>

\* C20 as amended: with the engine and ping blocking enabled, a request of a
\* ping type whose URL is no data URL is cancelled before any provider is
\* consulted, with exactly one ping-blocked log entry, whatever the registry
\* and the URL; a data URL never reaches this decision and is passed.
C20_PingCancelled ==
    PingAnswered =>
        IF isDataURL(request)
        THEN action = Pass /\ trace.logs = <<>> /\ trace.badge = 0 /\ trace.ran = {}
        ELSE PingBlocked

\* A ping to a URL that a provider of the registry would have cleaned was
\* cancelled, with logging on.
C20_Witness ==
    /\ PingAnswered
    /\ ~isDataURL(request)
    /\ PingBlocked
    /\ storage.loggingStatus
    /\ Len(storage.log) = 1
    /\ \E i \in 1..Len(providers) :
           /\ matchURL(providers[i], request.url)
           /\ removeFieldsFormURL(providers[i], request.url, TRUE).changes

\* C20 as stated: with the engine and ping blocking enabled every request of
\* a ping type is cancelled, whatever its URL.
C20_AsStated == PingAnswered => PingBlocked

\* The result of the engine of provider i on the request URL.
EngineResult(i) == removeFieldsFormURL(providers[i], request.url, FALSE)

\* Provider i matches the request URL and its engine yields a redirect, a
\* cancel or a changed result.
Decides(i) ==
    /\ matchURL(providers[i], request.url)
    /\ \E res \in {EngineResult(i)} : res.redirect \/ res.cancel \/ res.changes

\* C21: when clearUrl has answered a request through the provider loop
\* without throwing, either no matching provider yields a redirect, cancel or
\* changed result, and then the answer is pass-through with no log entry and
\* no badge increment; or the loop returned at the first provider, in
\* registry order, that matches and yields such a result: its engine ran, no
\* provider after it was evaluated, the providers evaluated before it match
\* but decide nothing, and the log calls and badge increments of the
\* invocation are exactly those of that one engine run.
C21_OneProviderDecides ==
    (ReachedProviders /\ action.kind # "throw") =>
        IF trace.by = 0
        THEN /\ \A i \in 1..Len(providers) : ~Decides(i)
             /\ action = Pass
             /\ trace.tab = NoTab
             /\ trace.logs = <<>>
             /\ trace.badge = 0
        ELSE /\ trace.by \in trace.ran
             /\ Decides(trace.by)
             /\ \A i \in 1..(trace.by - 1) : ~Decides(i)
             /\ \A i \in trace.ran : i <= trace.by
             /\ trace.ran = {i \in 1..trace.by : matchURL(providers[i], request.url)}
             /\ action # Pass
             /\ \E res \in {EngineResult(trace.by)} :
                    /\ trace.logs = res.logs
                    /\ trace.badge = res.badge

\* The second provider decided: the first one matched and ran but changed
\* nothing, and a provider that would also match was never reached.
C21_Witness ==
    /\ ReachedProviders
    /\ trace.by = 2
    /\ trace.ran = {1, 2}
    /\ ~Decides(1)
    /\ Decides(2)
    /\ trace.logs # <<>>
    /\ trace.logs = EngineResult(2).logs

\* The first provider decided although a later provider would decide too.
C21_WitnessLaterSkipped ==
    /\ ReachedProviders
    /\ action.kind # "throw"
    /\ trace.by = 1
    /\ Len(providers) >= 2
    /\ Decides(2)
    /\ 2 \notin trace.ran

\* Provider i is the first provider of the registry that matches the request
\* URL and yields a redirect, cancel or changed result.
FirstDeciding(i) ==
    /\ i \in 1..Len(providers)
    /\ Decides(i)
    /\ \A j \in 1..(i - 1) : ~Decides(j)

\* Provider i is complete, matches the request URL, which is not local, and
\* none of its redirections matches the URL the raw rules leave.
BlockingCase(i) ==
    /\ isCaneling(providers[i])
    /\ matchURL(providers[i], request.url)
    /\ ~checkLocalURL(request.url)
    /\ ~RedirectionHits(providers[i],
                        RawCleaned(getRawRules(providers[i]), request.url))

\* C22: with domain blocking enabled, the engine result of a complete
\* provider that matches a non-local URL without a redirection match has
\* cancel = true, whether or not it has changes = true; when that provider is
\* the one clearUrl acts on, a main_frame request is answered {cancel: true}
\* with the tab sent to the block-notice page of the request URL, and any
\* other request is redirected to the block-notice sentinel, never to the
\* rewritten URL.  With domain blocking disabled, or for a provider that is
\* not complete, no engine result has cancel = true.
C22_CancelTakesPrecedence ==
    phase = "answered" =>
        /\ \A i \in 1..Len(providers) :
              (storage.domainBlocking /\ BlockingCase(i)) =>
                 /\ \E res \in {EngineResult(i)} : res.cancel /\ ~res.redirect
                 /\ (ReachedProviders /\ FirstDeciding(i)) =>
                        /\ trace.by = i
                        /\ IF request.type = "main_frame"
                           THEN /\ action = Cancel
                                /\ trace.tab = [kind |-> "blockingPage", url |-> request.url]
                           ELSE /\ action = Redirect(siteBlockedAlert)
                                /\ trace.tab = NoTab
        /\ \A i \in 1..Len(providers) :
              (~storage.domainBlocking \/ ~isCaneling(providers[i])) =>
                 \/ ~matchURL(providers[i], request.url)
                 \/ ~EngineResult(i).cancel

\* A top-level navigation to a URL that a complete provider both rewrites and
\* blocks was answered with the block-notice page of the original URL.
C22_Witness ==
    /\ ReachedProviders
    /\ storage.domainBlocking
    /\ request.type = "main_frame"
    /\ trace.by > 0
    /\ BlockingCase(trace.by)
    /\ EngineResult(trace.by).changes
    /\ EngineResult(trace.by).cancel
    /\ EngineResult(trace.by).url # request.url
    /\ action = Cancel
    /\ trace.tab = [kind |-> "blockingPage", url |-> request.url]

\* C23: when the provider clearUrl acts on has produced a redirect result,
\* the answer is {cancel: true} together with an update of the tab to the
\* target exactly when that provider requires forced redirection and the
\* request is a main_frame navigation; in every other case the answer is
\* {redirectUrl: target} and no tab is updated.  In both cases the loop ends
\* at that provider: no later provider is evaluated.
C23_ForcedRedirect ==
    (ReachedProviders /\ action.kind # "throw") =>
        \A i \in 1..Len(providers) :
            \A res \in {EngineResult(i)} :
            (res.redirect /\ FirstDeciding(i)) =>
                /\ trace.by = i
                /\ \A j \in trace.ran : j <= i
                /\ IF providers[i].forceRedirection /\ request.type = "main_frame"
                   THEN /\ action = Cancel
                        /\ trace.tab = [kind |-> "update", url |-> res.url]
                   ELSE /\ action = Redirect(res.url)
                        /\ trace.tab = NoTab

\* A main_frame request was redirected by a provider with forced redirection:
\* the tab was updated to the target and the request cancelled, while a
\* later provider of the registry was not evaluated.
C23_Witness ==
    /\ ReachedProviders
    /\ request.type = "main_frame"
    /\ trace.by > 0
    /\ EngineResult(trace.by).redirect
    /\ providers[trace.by].forceRedirection
    /\ action = Cancel
    /\ trace.tab = [kind |-> "update", url |-> EngineResult(trace.by).url]

\* A run of the pipeline has ended with a completed registry build.
RebuildCompleted == net.pc = "done" /\ net.saved # {}

\* C24: after every completed rebuild, of the first run of the pipeline and
\* of every later one, the registry is exactly the registry of the accepted
\* rule-set: one provider per provider name, in document order, each with
\* its URL pattern and rules set; no provider of an earlier load is kept and
\* none is there twice.
C24_FullReplacement ==
    RebuildCompleted =>
        /\ providers = CompleteRegistry(storage.ClearURLsData.doc)
        /\ prvKeys = [i \in 1..Len(storage.ClearURLsData.doc) |->
                         storage.ClearURLsData.doc[i].name]

\* C25: in every state reached by interleaving calls of increaseBadged, the
\* callbacks of its platform check, tab-updated events and tab-activated
\* events, the badge counter of each tab is absent or a non-negative integer
\* equal to the number of non-quiet increments applied to the tab since its
\* entry was last created or deleted: never a non-numeric value, never an
\* increment on an entry that does not exist.
C25_BadgeCountersSound ==
    phase = "badge" =>
        \A t \in 0..MaxTabs :
            \/ trace.badges[t] = Absent
            \/ /\ trace.badges[t].kind = "number"
               /\ trace.badges[t].n >= 0
               /\ trace.badges[t].n = trace.applied[t]

====
